---- MODULE Spec2Model ----
(***************************************************************************)
(* The plan execution engine of apps/services/mcp/mcp: the value resolver  *)
(* (resolver.py), the condition evaluator (conditions.py), the run store   *)
(* (run_store.py) and the executor (executor.py).                          *)
(*                                                                         *)
(* Python values are tagged records [t, v].  A Python string is the        *)
(* sequence of its lexemes: "$" and "." are lexemes of their own, so       *)
(* "$vars.x" is <<"$", "vars", ".", "x">>; a blank is the lexeme " ".      *)
(* Time is counted in whole seconds.                                       *)
(***************************************************************************)
EXTENDS Integers, Sequences, FiniteSets, TLC

VARIABLES
    store,      \* McpRunStore._runs: run id -> McpRunState
    task,       \* run id -> the locals of the run's background thread (_run)
    now,        \* time.time(), in ticks
    executor,   \* the McpExecutor's configuration (allow_tools, max_steps, per_step_timeout_s)
    hist        \* run id -> observations of the run (what was called, in order)

vars == <<store, task, now, executor, hist>>

----------------------------------------------------------------------------
(* Python values *)

Null == [t |-> "null", v |-> 0]
Bool(b) == [t |-> "bool", v |-> b]
Num(n) == [t |-> "num", v |-> n]
Str(s) == [t |-> "str", v |-> s]
S(x) == [t |-> "str", v |-> <<x>>]
Map(f) == [t |-> "map", v |-> f]
List(s) == [t |-> "list", v |-> s]
EmptyMap == [t |-> "map", v |-> <<>>]
EmptyList == [t |-> "list", v |-> <<>>]

IsDict(x) == x.t = "map"
IsList(x) == x.t = "list"
IsStr(x) == x.t = "str"
IsNone(x) == x.t = "null"

\* d.get(k)
Get(d, k) == IF k \in DOMAIN d.v THEN d.v[k] ELSE Null

\* d[k] = x
Put(d, k, x) == Map([j \in (DOMAIN d.v) \cup {k} |-> IF j = k THEN x ELSE d.v[j]])

\* bool(x)
Truthy(x) ==
    CASE x.t = "null" -> FALSE
      [] x.t = "bool" -> x.v
      [] x.t = "num" -> x.v # 0
      [] x.t = "str" -> x.v # <<>> /\ x.v # <<"">>
      [] x.t = "map" -> DOMAIN x.v # {}
      [] x.t = "list" -> Len(x.v) > 0
      [] OTHER -> TRUE

\* x or y
PyOr(x, y) == IF Truthy(x) THEN x ELSE y

\* the decimal numerals the model reads and writes
Numerals == <<"0", "1", "2", "3", "4", "5", "6", "7", "8", "9", "10",
              "11", "12", "13", "14", "15", "16", "17", "18", "19", "20", "21", "22">>

NumStr(n) == IF n >= 0 /\ n < Len(Numerals) THEN Numerals[n + 1] ELSE "<number>"

IsNumeral(x) == \E i \in 1..Len(Numerals) : Numerals[i] = x

NumeralValue(x) == (CHOOSE i \in 1..Len(Numerals) : Numerals[i] = x) - 1

\* str(x)
PyStr(x) ==
    CASE x.t = "str" -> x
      [] x.t = "null" -> S("None")
      [] x.t = "bool" -> IF x.v THEN S("True") ELSE S("False")
      [] x.t = "num" -> S(NumStr(x.v))
      [] OTHER -> S("<repr>")

\* float(x) and int(x): [ok |-> FALSE] stands for the exception they raise
PyNumber(x) ==
    CASE x.t = "num" -> [ok |-> TRUE, n |-> x.v]
      [] x.t = "bool" -> [ok |-> TRUE, n |-> IF x.v THEN 1 ELSE 0]
      [] x.t = "str" ->
            IF Len(x.v) = 1 /\ IsNumeral(x.v[1])
            THEN [ok |-> TRUE, n |-> NumeralValue(x.v[1])]
            ELSE [ok |-> FALSE, n |-> 0]
      [] OTHER -> [ok |-> FALSE, n |-> 0]

\* s.strip()
RECURSIVE StripLeft(_)
StripLeft(s) == IF s # <<>> /\ Head(s) = " " THEN StripLeft(Tail(s)) ELSE s

RECURSIVE StripRight(_)
StripRight(s) ==
    IF s # <<>> /\ s[Len(s)] = " " THEN StripRight(SubSeq(s, 1, Len(s) - 1)) ELSE s

Strip(s) == StripRight(StripLeft(s))

\* s.lower(), on the lexemes that carry upper-case letters
LowerLex(x) ==
    CASE x = "Continue" -> "continue"
      [] x = "STOP" -> "stop"
      [] x = "Tool" -> "tool"
      [] x = "AND" -> "and"
      [] OTHER -> x

Lower(s) == [i \in 1..Len(s) |-> LowerLex(s[i])]

\* a variant that lets the first argument through
MinTakesFirst(a, b) == a

Min(a, b) == IF a <= b THEN a ELSE b

----------------------------------------------------------------------------
(* resolver.py *)

\* the parts of path.split(".") that are not empty
RECURSIVE PathParts(_)
PathParts(s) ==
    IF s = <<>> THEN <<>>
    ELSE IF Head(s) = "." \/ Head(s) = "" THEN PathParts(Tail(s))
    ELSE <<Head(s)>> \o PathParts(Tail(s))

\* does cur[int(part)] of a list give an element?  int takes a numeral, and
\* "-1" counts from the end
IndexInRange(cur, part) ==
    \/ IsNumeral(part) /\ NumeralValue(part) < Len(cur.v)
    \/ part = "-1" /\ Len(cur.v) > 0

\* cur[int(part)] of a list, None when it raises
ListIndex(cur, part) ==
    IF IsNumeral(part) /\ NumeralValue(part) < Len(cur.v) THEN cur.v[NumeralValue(part) + 1]
    ELSE IF part = "-1" /\ Len(cur.v) > 0 THEN cur.v[Len(cur.v)]
    ELSE Null

\* a reference to the dict object that holds the run's variables: the one
\* object a plan can get hold of that later steps change in place
LiveVars == [t |-> "live", v |-> "vars"]

\* the object a value denotes, given the present content of the run's vars
Deref(x, heap) == IF x = LiveVars THEN heap ELSE x

RECURSIVE WalkParts(_, _, _)
WalkParts(cur, parts, heap) ==
    IF parts = <<>> THEN cur
    ELSE IF IsDict(Deref(cur, heap))
        THEN WalkParts(Get(Deref(cur, heap), Head(parts)), Tail(parts), heap)
    ELSE IF IsList(cur) THEN
        IF IndexInRange(cur, Head(parts))
        THEN WalkParts(ListIndex(cur, Head(parts)), Tail(parts), heap)
        ELSE Null
    ELSE Null

\* heap is the content of the run's vars, which obj may refer to
_get_path(obj, path, heap) == WalkParts(obj, PathParts(path), heap)

\* the run's state as the resolver sees it: {"vars": st.vars, "save": st.save, "last": st.last}
StateOf(st) == [vars |-> st.vars, save |-> st.save, last |-> st.last]

StartsWithLex(s, a, b) == Len(s) >= 2 /\ s[1] = a /\ s[2] = b

resolve_ref(ref, state) ==
    IF ~(Len(ref) >= 1 /\ ref[1] = "$") THEN Str(ref)
    ELSE LET token == Tail(ref) IN
        IF StartsWithLex(token, "vars", ".")
            THEN _get_path(LiveVars, SubSeq(token, 3, Len(token)), state.vars)
        ELSE IF StartsWithLex(token, "last", ".")
            THEN _get_path(state.last, SubSeq(token, 3, Len(token)), state.vars)
        ELSE IF \A i \in 1..Len(token) : token[i] # "."
            THEN (IF Len(token) = 1 THEN Get(state.save, token[1]) ELSE Null)
        ELSE LET dot == CHOOSE i \in 1..Len(token) :
                            token[i] = "." /\ \A j \in 1..(i - 1) : token[j] # "."
                 saved == IF dot = 2 /\ token[1] \in DOMAIN state.save.v
                          THEN state.save.v[token[1]] ELSE EmptyMap
             IN _get_path(saved, SubSeq(token, dot + 1, Len(token)), state.vars)

resolve_value(v, state) ==
    IF IsStr(v) /\ Len(v.v) >= 1 /\ v.v[1] = "$" THEN resolve_ref(v.v, state) ELSE v

RECURSIVE resolve_args(_, _)
resolve_args(args, state) ==
    IF IsDict(args) THEN Map([k \in DOMAIN args.v |-> resolve_args(args.v[k], state)])
    ELSE IF IsList(args) THEN List([i \in 1..Len(args.v) |-> resolve_args(args.v[i], state)])
    ELSE resolve_value(args, state)

----------------------------------------------------------------------------
(* conditions.py *)

IsNumeric(x) == x.t = "num" \/ x.t = "bool"

\* left == right
PyEq(a, b) ==
    IF IsNumeric(a) /\ IsNumeric(b) THEN PyNumber(a).n = PyNumber(b).n
    ELSE a.t = b.t /\ a.v = b.v

\* a comparison that takes a missing value for the number 0
CompareNullIsZero(op, left, right) ==
    LET l == IF left = Null THEN [ok |-> TRUE, n |-> 0] ELSE PyNumber(left)
        r == IF right = Null THEN [ok |-> TRUE, n |-> 0] ELSE PyNumber(right)
    IN CASE op = <<"==">> -> PyEq(left, right)
         [] op = <<"!=">> -> ~PyEq(left, right)
         [] op = <<">">> -> l.ok /\ r.ok /\ l.n > r.n
         [] op = <<">=">> -> l.ok /\ r.ok /\ l.n >= r.n
         [] op = <<"<">> -> l.ok /\ r.ok /\ l.n < r.n
         [] op = <<"<=">> -> l.ok /\ r.ok /\ l.n <= r.n
         [] OTHER -> FALSE

Compare(op, left, right) ==
    LET l == PyNumber(left)
        r == PyNumber(right)
    IN CASE op = <<"==">> -> PyEq(left, right)
         [] op = <<"!=">> -> ~PyEq(left, right)
         [] op = <<">">> -> l.ok /\ r.ok /\ l.n > r.n
         [] op = <<">=">> -> l.ok /\ r.ok /\ l.n >= r.n
         [] op = <<"<">> -> l.ok /\ r.ok /\ l.n < r.n
         [] op = <<"<=">> -> l.ok /\ r.ok /\ l.n <= r.n
         [] OTHER -> FALSE

RECURSIVE eval_cond(_, _)
eval_cond(cond, state) ==
    IF ~IsDict(cond) THEN FALSE
    ELSE IF ~IsStr(Get(cond, "op")) THEN FALSE
    ELSE LET op == Lower(Strip(Get(cond, "op").v))
             conds == Get(cond, "conds")
         IN CASE op = <<"and">> ->
                    IF ~IsList(conds)
                    THEN eval_cond(Get(cond, "left"), state) /\ eval_cond(Get(cond, "right"), state)
                    ELSE \A i \in 1..Len(conds.v) :
                            IsDict(conds.v[i]) => eval_cond(conds.v[i], state)
              [] op = <<"or">> ->
                    IF ~IsList(conds)
                    THEN eval_cond(Get(cond, "left"), state) \/ eval_cond(Get(cond, "right"), state)
                    ELSE \E i \in 1..Len(conds.v) :
                            IsDict(conds.v[i]) /\ eval_cond(conds.v[i], state)
              [] op = <<"not">> ->
                    IF ~IsDict(Get(cond, "cond")) THEN FALSE
                    ELSE ~eval_cond(Get(cond, "cond"), state)
              [] op = <<"exists">> ->
                    ~IsNone(resolve_value(Get(cond, "value"), state))
              [] OTHER ->
                    Compare(op, resolve_value(Get(cond, "left"), state),
                                resolve_value(Get(cond, "right"), state))

----------------------------------------------------------------------------
(* run_store.py *)

Terminal == {"done", "failed", "cancelled"}

\* McpRunStore.create: the McpRunState of a new run
McpRunState(plan, initial_state) ==
    LET ini == PyOr(initial_state, EmptyMap) IN
    [status |-> "running",
     created_ts |-> Num(now),
     plan |-> PyOr(plan, EmptyMap),
     initial_state |-> ini,
     vars |-> PyOr(Get(ini, "vars"), EmptyMap),
     save |-> PyOr(Get(ini, "save"), EmptyMap),
     last |-> PyOr(Get(ini, "last"), EmptyMap),
     steps |-> <<>>,
     error |-> Null,
     finished_ts |-> Null,
     cancelled |-> FALSE]

\* McpRunStore.cancel on a known run
\* a cancel that makes the status cancelled whatever it was
cancel_any_status(st) ==
    [st EXCEPT !.cancelled = TRUE, !.status = "cancelled", !.finished_ts = Num(now)]

cancel(st) ==
    [st EXCEPT !.cancelled = TRUE,
               !.status = IF st.status = "running" THEN "cancelled" ELSE @,
               !.finished_ts = IF st.status = "running" THEN Num(now) ELSE @]

\* a finish that stores the status it is given
finish_unclamped(st, status, error) ==
    [st EXCEPT !.status = status, !.error = error, !.finished_ts = Num(now)]

\* McpRunStore.finish on a known run
finish(st, status, error) ==
    [st EXCEPT !.status = IF status \in Terminal THEN status ELSE "failed",
               !.error = error,
               !.finished_ts = Num(now)]

\* McpRunStore.finish: the store it leaves and the value it returns
StoreFinish(runs, run_id, status, error) ==
    IF run_id \notin DOMAIN runs THEN [runs |-> runs, ret |-> FALSE]
    ELSE [runs |-> [runs EXCEPT ![run_id] = finish(@, status, error)], ret |-> TRUE]

\* McpRunStore.cancel: the store it leaves and the value it returns
StoreCancel(runs, run_id) ==
    IF run_id \notin DOMAIN runs THEN [runs |-> runs, ret |-> FALSE]
    ELSE [runs |-> [runs EXCEPT ![run_id] = cancel(@)], ret |-> TRUE]

\* McpRunStore.get
get(runs, run_id) == IF run_id \in DOMAIN runs THEN runs[run_id] ELSE Null

McpRunStep(i, kind, name, args, started_ts, ended_ts, ok, result) ==
    [i |-> i, kind |-> kind, name |-> name, args |-> PyOr(args, EmptyMap),
     started_ts |-> started_ts, ended_ts |-> ended_ts, ok |-> ok,
     result |-> PyOr(result, EmptyMap),
     error |-> IF IsDict(result) THEN Get(result, "error") ELSE Null]

\* McpRunStore.to_dict; run_id is the key under which the store holds st.
\* dict(x) is a new dict with the entries of x: an entry that refers to the
\* run's vars object still refers to it in the copy.
to_dict(st) ==
    Map([created_ts |-> st.created_ts,
         status |-> S(st.status),
         plan |-> PyOr(st.plan, EmptyMap),
         initial_state |-> PyOr(st.initial_state, EmptyMap),
         vars |-> PyOr(st.vars, EmptyMap),
         save |-> PyOr(st.save, EmptyMap),
         last |-> PyOr(st.last, EmptyMap),
         steps |-> List([i \in 1..Len(st.steps) |->
                            LET e == st.steps[i] IN
                            Map([i |-> Num(e.i), kind |-> S(e.kind), name |-> e.name,
                                 args |-> PyOr(e.args, EmptyMap),
                                 started_ts |-> e.started_ts, ended_ts |-> e.ended_ts,
                                 ok |-> Bool(e.ok), result |-> PyOr(e.result, EmptyMap),
                                 error |-> e.error])]),
         error |-> st.error,
         finished_ts |-> st.finished_ts,
         cancelled |-> Bool(st.cancelled)])

----------------------------------------------------------------------------
(* executor.py: helpers *)

\* McpExecutor.__init__ defaults, as container.py and host_mcp.py construct it
ExecMaxSteps == 20
ExecPerStepTimeout == 20

\* an onFail reading that takes every value but stop for continue
_on_fail_mode_lenient(step) ==
    LET mode == PyOr(Get(step, "on_fail"), S("stop")) IN
    IF ~IsStr(mode) THEN "stop"
    ELSE IF Lower(Strip(mode.v)) = <<"stop">> THEN "stop"
    ELSE "continue"

_on_fail_mode(step) ==
    LET mode == PyOr(Get(step, "on_fail"), S("stop")) IN
    IF ~IsStr(mode) THEN "stop"
    ELSE IF Lower(Strip(mode.v)) = <<"continue">> THEN "continue"
    ELSE "stop"

_step_count(st) == Len(st.steps)

_fail(st, msg) == [st EXCEPT !.error = msg]

\* a log that puts the newest entry first
_log_step_prepend(st, kind, name, args, path, ok, result, started_ts, ended_ts) ==
    LET res == IF IsDict(result) /\ "path" \notin DOMAIN result.v
               THEN Put(result, "path", Str(path)) ELSE result
    IN [st EXCEPT !.steps =
            <<McpRunStep(Len(st.steps), kind, name, args, started_ts, ended_ts, ok, res)>> \o @]

_log_step(st, kind, name, args, path, ok, result, started_ts, ended_ts) ==
    LET res == IF IsDict(result) /\ "path" \notin DOMAIN result.v
               THEN Put(result, "path", Str(path)) ELSE result
    IN [st EXCEPT !.steps = Append(@,
            McpRunStep(Len(st.steps), kind, name, args, started_ts, ended_ts, ok, res))]

\* f"{path}[{idx}]"
StepPath(path, idx) == path \o <<"[", NumStr(idx), "]">>

\* f"... at {path}"
ErrAt(msg, path) == Str(<<msg>> \o path)

\* the key a stripped string names in a dict
KeyOf(s) == IF Len(s) = 1 THEN s[1] ELSE "<joined>"

\* a timeout that returns what out held before the worker ran
ToolTimeoutInitialOut(timeout_s) == Map([ok |-> Bool(FALSE), error |-> S("timeout")])

\* the result of a tool call that timed out: f"tool timeout after {timeout_s}s"
ToolTimeoutResult(timeout_s) ==
    Map([ok |-> Bool(FALSE),
         error |-> Str(<<"tool timeout after ", NumStr(timeout_s), ".", "0s">>)])

\* what the worker of _call_with_timeout leaves in out
worker(behaviour) ==
    IF behaviour.kind = "raise" THEN Map([ok |-> Bool(FALSE), error |-> behaviour.value])
    ELSE LET out == behaviour.value IN
        IF ~IsDict(out) THEN Map([ok |-> Bool(FALSE), error |-> S("tool returned non-dict")])
        ELSE IF "ok" \notin DOMAIN out.v /\ "error" \in DOMAIN out.v
            THEN Map([ok |-> Bool(FALSE), error |-> Get(out, "error")])
        ELSE IF "ok" \notin DOMAIN out.v THEN Put(out, "ok", Bool(TRUE))
        ELSE out

\* a step that counts as succeeded only when ok is true
ResultOkStrict(result) == IsDict(result) /\ Get(result, "ok") = Bool(TRUE)

\* ok = not (isinstance(result, dict) and result.get("ok") is False)
ResultOk(result) ==
    ~(IsDict(result) /\ Get(result, "ok").t = "bool" /\ Get(result, "ok").v = FALSE)

----------------------------------------------------------------------------
(* the call stack of the run's thread *)

NoRet == [ok |-> TRUE, result |-> Null]

StepsFrame(steps, path) ==
    [k |-> "steps", steps |-> steps, path |-> path, idx |-> 0, pc |-> "top",
     res |-> Null, call |-> Null, started |-> 0]

WaitFrame(step, path, timeout_s, poll_s) ==
    [k |-> "wait", step |-> step, path |-> path, started |-> now,
     timeout_s |-> timeout_s, poll_s |-> poll_s, pc |-> "loop"]

Top(tk) == tk.stack[Len(tk.stack)]

Pop(stack) == SubSeq(stack, 1, Len(stack) - 1)

SetTop(stack, f) == [stack EXCEPT ![Len(stack)] = f]

\* the step the top frame is at, and its path
CurStep(tk) == Top(tk).steps[Top(tk).idx + 1]
CurPath(tk) == StepPath(Top(tk).path, Top(tk).idx)

\* a thread that an exception has ended
Raise(tk) == [tk EXCEPT !.pc = "dead", !.stack = <<>>, !.ret = NoRet]

\* _exec_steps returns ok to its caller
ReturnSteps(tk, ok) ==
    [tk EXCEPT !.stack = Pop(@),
               !.ret = [ok |-> ok, result |-> Null],
               !.pc = IF Len(tk.stack) = 1 THEN "after" ELSE "exec"]

\* _dispatch_step returns (ok, result) to the _exec_steps frame on top
ReturnDispatch(tk, ok, result) ==
    [tk EXCEPT !.stack = SetTop(@, [Top(tk) EXCEPT !.pc = "ret", !.call = Null]),
               !.ret = [ok |-> ok, result |-> result]]

\* _exec_wait_step returns (ok, result): its frame goes, the _exec_steps frame below resumes
ReturnWait(tk, ok, result) ==
    LET below == [tk EXCEPT !.stack = Pop(@)] IN ReturnDispatch(below, ok, result)

\* _exec_steps(st, steps, ...) is called
CallSteps(tk, steps, path) == [tk EXCEPT !.stack = Append(@, StepsFrame(steps, path))]

Event(e, path, a, n, v) == [e |-> e, path |-> path, a |-> a, n |-> n, v |-> v]

----------------------------------------------------------------------------
(* executor.py: the step kinds.  Each operator takes the run record st and  *)
(* the thread's locals tk (the _exec_steps frame of the step on top of the  *)
(* stack) and yields both as the step leaves them, with the events seen.    *)

TicksPerSecond == 2
WaitDefaultTimeoutS == 60

Out(st, tk, ev) == [st |-> st, tk |-> tk, ev |-> ev]

\* a failure result that is logged and returned without touching last
Synth(st, tk, kind, name, path, msg) ==
    LET res == Map([ok |-> Bool(FALSE), error |-> ErrAt(msg, path)]) IN
    Out(_log_step(st, kind, name, EmptyMap, path, FALSE, res, Null, Null),
        ReturnDispatch(tk, FALSE, res), <<>>)

\* lines 172-193: up to the start of the worker
_exec_tool_step(st, tk, step, path, allow_tools) ==
    LET name == Get(step, "name")
        args == PyOr(Get(step, "args"), EmptyMap)
    IN IF ~IsStr(name) \/ ~Truthy(Str(Strip(name.v)))
            THEN Synth(st, tk, "tool", S(""), path, "tool step missing name at ")
       ELSE IF allow_tools.given /\ KeyOf(Strip(name.v)) \notin allow_tools.names
            THEN LET res == Map([ok |-> Bool(FALSE),
                                 error |-> Str(<<"tool '">> \o Strip(name.v) \o <<"' not allowed">>)])
                 IN Out(_log_step(st, "tool", Str(Strip(name.v)), EmptyMap, path, FALSE, res, Null, Null),
                        ReturnDispatch(tk, FALSE, res), <<>>)
       ELSE IF ~IsDict(args)
            THEN Synth(st, tk, "tool", Str(Strip(name.v)), path, "tool args must be object at ")
       ELSE Out(st,
                [tk EXCEPT !.stack = SetTop(@, [Top(tk) EXCEPT
                        !.pc = "call",
                        !.call = Str(Strip(name.v)),
                        !.res = resolve_args(args, StateOf(st)),
                        !.started = now])],
                <<Event("invoke", path, KeyOf(Strip(name.v)), Len(st.steps), Null)>>)

\* lines 196-218: the call has given result
ToolStepFinish(st, tk, result) ==
    LET f == Top(tk)
        step == CurStep(tk)
        name == f.call
        save_as == Get(step, "save_as")
        st1 == IF IsStr(save_as) /\ Truthy(Str(Strip(save_as.v)))
               THEN [st EXCEPT !.save = Put(@, KeyOf(Strip(save_as.v)), result)]
               ELSE st
        st2 == [st1 EXCEPT !.save = Put(@, KeyOf(name.v), result), !.last = result]
        ok == ResultOk(result)
    IN Out(_log_step(st2, "tool", name, f.res, CurPath(tk), ok, result, Num(f.started), Num(now)),
           ReturnDispatch([tk EXCEPT !.stack = SetTop(@, [f EXCEPT !.res = Null])], ok, result),
           <<>>)

_exec_set_step(st, tk, step, path) ==
    LET var == Get(step, "var") IN
    IF ~IsStr(var) \/ ~Truthy(Str(Strip(var.v)))
    THEN Synth(st, tk, "set", S(""), path, "set step missing var at ")
    ELSE LET value == resolve_value(Get(step, "value"), StateOf(st))
             name == Str(Strip(var.v))
             res == Map([ok |-> Bool(TRUE), set |-> name, value |-> value])
             st1 == [st EXCEPT !.vars = Put(@, KeyOf(name.v), value), !.last = res]
         IN Out(_log_step(st1, "set", name, Map([value |-> value]), path, TRUE, res, Null, Null),
                ReturnDispatch(tk, TRUE, res), <<>>)

\* an if step that logs its choice and then runs the other branch
_exec_if_step_swapped(st, tk, step, path) ==
    LET cond == Get(step, "cond")
        then_steps == PyOr(Get(step, "then"), EmptyList)
        else_steps == PyOr(Get(step, "else"), EmptyList)
    IN IF ~IsDict(cond)
            THEN Synth(st, tk, "if", S("if"), path, "if step missing cond at ")
       ELSE IF ~IsList(then_steps) \/ ~IsList(else_steps)
            THEN Synth(st, tk, "if", S("if"), path, "if then/else must be arrays at ")
       ELSE LET take_then == eval_cond(cond, StateOf(st))
                res == Map([ok |-> Bool(TRUE), if |-> Bool(take_then)])
                st1 == [st EXCEPT !.last = res]
                waiting == [tk EXCEPT !.stack = SetTop(@, [Top(tk) EXCEPT !.pc = "if"])]
            IN Out(_log_step(st1, "if", S("if"), Map([take_then |-> Bool(take_then)]), path,
                             TRUE, res, Null, Null),
                   CallSteps(waiting,
                             IF take_then THEN else_steps.v ELSE then_steps.v,
                             path \o <<".", IF take_then THEN "else" ELSE "then">>),
                   <<Event("branch", path, IF take_then THEN "else" ELSE "then",
                           Len(st.steps), Null)>>)

\* lines 247-269: up to the call of _exec_steps on the branch
_exec_if_step(st, tk, step, path) ==
    LET cond == Get(step, "cond")
        then_steps == PyOr(Get(step, "then"), EmptyList)
        else_steps == PyOr(Get(step, "else"), EmptyList)
    IN IF ~IsDict(cond)
            THEN Synth(st, tk, "if", S("if"), path, "if step missing cond at ")
       ELSE IF ~IsList(then_steps) \/ ~IsList(else_steps)
            THEN Synth(st, tk, "if", S("if"), path, "if then/else must be arrays at ")
       ELSE LET take_then == eval_cond(cond, StateOf(st))
                res == Map([ok |-> Bool(TRUE), if |-> Bool(take_then)])
                st1 == [st EXCEPT !.last = res]
                waiting == [tk EXCEPT !.stack = SetTop(@, [Top(tk) EXCEPT !.pc = "if"])]
            IN Out(_log_step(st1, "if", S("if"), Map([take_then |-> Bool(take_then)]), path,
                             TRUE, res, Null, Null),
                   CallSteps(waiting,
                             IF take_then THEN then_steps.v ELSE else_steps.v,
                             path \o <<".", IF take_then THEN "then" ELSE "else">>),
                   <<Event("branch", path, IF take_then THEN "then" ELSE "else",
                           Len(st.steps), Null)>>)

\* lines 282-299: up to the loop
_exec_wait_step(st, tk, step, path) ==
    LET timeout_s == PyNumber(PyOr(Get(step, "timeout_s"), Num(WaitDefaultTimeoutS)))
        poll_given == Truthy(Get(step, "poll_s"))
        poll_s == PyNumber(Get(step, "poll_s"))
        cond == Get(step, "cond")
        tick_steps == PyOr(Get(step, "tick"), EmptyList)
        refresh_steps == PyOr(Get(step, "refresh"), EmptyList)
    IN IF ~timeout_s.ok \/ (poll_given /\ ~poll_s.ok)
            THEN Out(st, Raise(tk), <<Event("raise", path, "wait", Len(st.steps), Null)>>)
       ELSE IF ~IsDict(cond)
            THEN Synth(st, tk, "wait", S("wait"), path, "wait step missing cond at ")
       ELSE IF ~IsList(tick_steps) \/ ~IsList(refresh_steps)
            THEN Synth(st, tk, "wait", S("wait"), path, "wait tick/refresh must be arrays at ")
       ELSE LET poll_ticks == IF poll_given THEN poll_s.n * TicksPerSecond ELSE 1
                waiting == [tk EXCEPT !.stack = SetTop(@, [Top(tk) EXCEPT !.pc = "wait"])]
            IN Out(_log_step(st, "wait", S("wait"),
                             Map([timeout_s |-> Num(timeout_s.n),
                                  poll_s |-> IF poll_given THEN Num(poll_s.n) ELSE S("0.5")]),
                             path, TRUE, Map([ok |-> Bool(TRUE), wait |-> S("started")]), Null, Null),
                   [waiting EXCEPT !.stack = Append(@,
                        WaitFrame(step, path, timeout_s.n * TicksPerSecond, poll_ticks))],
                   <<>>)

_dispatch_step(st, tk, step, path, allow_tools) ==
    LET step_type == Lower(Strip(PyOr(Get(step, "type"), S("")).v)) IN
    CASE step_type = <<"tool">> -> _exec_tool_step(st, tk, step, path, allow_tools)
      [] step_type = <<"set">> -> _exec_set_step(st, tk, step, path)
      [] step_type = <<"if">> -> _exec_if_step(st, tk, step, path)
      [] step_type = <<"wait">> -> _exec_wait_step(st, tk, step, path)
      [] OTHER -> Out(st,
                      ReturnDispatch(tk, FALSE,
                          Map([ok |-> Bool(FALSE),
                               error |-> Str(<<"unknown step type '">> \o step_type
                                             \o <<"' at ">> \o path)])),
                      <<>>)

\* a step list that goes on after a soft failure without running the fallback
OnFailSkipsFallback(st, tk, step, path, result) ==
    LET mode == _on_fail_mode(step)
        f == Top(tk)
        failed == Event("fail", path, mode, Len(st.steps), result)
    IN IF mode = "stop" THEN
            Out([st EXCEPT !.error =
                    IF IsDict(result) /\ Truthy(Get(result, "error"))
                    THEN PyStr(Get(result, "error"))
                    ELSE PyOr(st.error, ErrAt("step failed at ", path))],
                ReturnSteps(tk, FALSE), <<failed>>)
       ELSE Out([st EXCEPT !.last = IF IsDict(result) THEN result
                                    ELSE Map([ok |-> Bool(FALSE), error |-> S("step failed (soft)")])],
                [tk EXCEPT !.stack = SetTop(@, [f EXCEPT !.idx = @ + 1, !.pc = "top"]),
                           !.ret = NoRet],
                <<failed>>)

\* lines 112-133: a step came back not ok
OnFail(st, tk, step, path, result) ==
    LET mode == _on_fail_mode(step)
        fb == PyOr(Get(step, "fallback"), EmptyList)
        f == Top(tk)
        next == [tk EXCEPT !.stack = SetTop(@, [f EXCEPT !.idx = @ + 1, !.pc = "top"]),
                           !.ret = NoRet]
        failed == Event("fail", path, mode, Len(st.steps), result)
    IN IF mode = "stop" THEN
            Out([st EXCEPT !.error =
                    IF IsDict(result) /\ Truthy(Get(result, "error"))
                    THEN PyStr(Get(result, "error"))
                    ELSE PyOr(st.error, ErrAt("step failed at ", path))],
                ReturnSteps(tk, FALSE), <<failed>>)
       ELSE IF Truthy(fb) THEN
            IF ~IsList(fb)
            THEN Out(_fail(st, ErrAt("fallback must be an array at ", path)),
                     ReturnSteps(tk, FALSE),
                     <<failed, Event("abort", path, "fallback", Len(st.steps), Null)>>)
            ELSE Out(st,
                     CallSteps([tk EXCEPT !.stack = SetTop(@, [f EXCEPT !.pc = "fb", !.res = result]),
                                          !.ret = NoRet],
                               fb.v, path \o <<".", "fallback">>),
                     <<failed>>)
       ELSE Out([st EXCEPT !.last = IF IsDict(result) THEN result
                                    ELSE Map([ok |-> Bool(FALSE), error |-> S("step failed (soft)")])],
                next, <<failed>>)

----------------------------------------------------------------------------
(* plans, initial states and tool behaviours the runs are given *)

Ref(a, b) == Str(<<"$", a, ".", b>>)

CmpCond(op, left, right) == Map([op |-> S(op), left |-> left, right |-> right])

CondTrue == CmpCond("==", Num(1), Num(1))
CondFalse == CmpCond("==", Num(1), Num(2))

ToolStep(name) == Map([type |-> S("tool"), name |-> S(name)])

ToolStepContinue(name, fallback) ==
    Map([type |-> S("tool"), name |-> S(name), on_fail |-> S("continue"),
         fallback |-> List(fallback)])

SetStep(var, value) == Map([type |-> S("set"), var |-> S(var), value |-> value])

IfStep(cond, then_steps, else_steps) ==
    Map([type |-> S("if"), cond |-> cond, then |-> List(then_steps), else |-> List(else_steps)])

WaitStep(cond, timeout_s, poll_s, tick, refresh) ==
    Map([type |-> S("wait"), cond |-> cond, timeout_s |-> Num(timeout_s), poll_s |-> Num(poll_s),
         tick |-> List(tick), refresh |-> List(refresh)])

Plan(policy, steps) ==
    Map([version |-> S("mcp.plan.v1"), goal_type |-> S("FIND_OBJECT"),
         vars |-> Map([x |-> Num(5), seeded |-> Bool(TRUE)]),
         policy |-> policy, steps |-> steps])

Policy(max_steps, per_step_timeout_s) ==
    Map([max_steps |-> Num(max_steps), per_step_timeout_s |-> Num(per_step_timeout_s)])

\* a tool call, a branch on a variable, a saved result
PlanBasic ==
    Plan(Policy(6, 1),
         List(<<SetStep("x", Num(5)),
                IfStep(CmpCond("==", Ref("vars", "x"), Num(5)),
                       <<Put(ToolStep("kb_query"), "save_as", S("bq"))>>,
                       <<SetStep("y", Num(0))>>),
                SetStep("label", Ref("bq", "label"))>>))

\* a failing tool with onFail continue and a fallback, then a sibling
PlanFallback ==
    Plan(Policy(6, 1),
         List(<<ToolStepContinue("kb_query",
                    <<SetStep("recovered", Bool(TRUE)), ToolStep("say")>>),
                SetStep("why", Ref("last", "error"))>>))

\* a stop failure inside a branch; the if step itself carries onFail continue
PlanNestedStop ==
    Plan(Policy(6, 1),
         List(<<Put(IfStep(CondTrue, <<ToolStep("kb_query"), SetStep("y", Num(1))>>, <<>>),
                    "on_fail", S("continue")),
                SetStep("after", Num(1))>>))

\* a soft failure, then the budget is reached inside the branch
PlanBudget ==
    Plan(Policy(2, 1),
         List(<<IfStep(CondTrue,
                       <<ToolStepContinue("kb_query", <<>>), SetStep("y", Num(1))>>, <<>>),
                SetStep("after", Num(1))>>))

\* a wait whose condition never holds, with a tick step, then a sibling
PlanWaitTick ==
    Plan(Policy(3, 1),
         List(<<WaitStep(CondFalse, 3, 1, <<SetStep("n", Num(1))>>, <<>>),
                SetStep("after", Num(1))>>))

\* a wait that polls a tool until it has found something, as the last step
PlanWaitRefresh ==
    Plan(Map([per_step_timeout_s |-> Num(1)]),
         List(<<WaitStep(Map([op |-> S("exists"), value |-> Ref("kb_query", "found")]),
                         1, 1, <<>>, <<ToolStepContinue("kb_query", <<>>)>>)>>))

\* a wait that only sleeps
PlanWaitOnly ==
    Plan(Policy(3, 1), List(<<WaitStep(CondFalse, 1, 1, <<>>, <<>>), ToolStep("say")>>))

\* a wait with two tick steps and a refresh step whose condition holds in the
\* second round
PlanWaitBoth ==
    Plan(Policy(8, 1),
         List(<<WaitStep(CmpCond("==", Ref("vars", "n"), Num(1)), 3, 1,
                         <<SetStep("n", Ref("vars", "k")), SetStep("k", Num(1))>>,
                         <<SetStep("seen", Ref("vars", "n"))>>)>>))

\* a tool that returns a list, or a map whose ok is no boolean
PlanNotify == Plan(Policy(6, 1), List(<<ToolStepContinue("notify", <<>>)>>))

\* a policy that asks for more than the executor's limits
PlanLoose ==
    Plan(Policy(ExecMaxSteps + 5, ExecPerStepTimeout + 5), List(<<SetStep("x", Num(1))>>))

\* policy values that are no numbers
PlanBadPolicy == Plan(Map([max_steps |-> S("many")]), List(<<SetStep("x", Num(1))>>))

\* steps that is no list
PlanBadSteps == Plan(Policy(6, 1), Map([first |-> SetStep("x", Num(1))]))

\* malformed steps: a step that is no map, missing fields, an unknown type
PlanMalformed ==
    Plan(Policy(6, 1),
         List(<<Put(ToolStepContinue("drive", <<>>), "args", S("fast")),
                Put(Map([type |-> S("tool")]), "on_fail", S(" Continue ")),
                Put(Map([type |-> S("set")]), "on_fail", S("continue")),
                Put(Map([type |-> S("jump")]), "on_fail", S("continue")),
                IfStep(CondTrue,
                       <<ToolStepContinue("kb_query", <<>>), Map([type |-> S("set")])>>, <<>>),
                S("not a step")>>))

\* more malformed fields: a fallback, a branch and a tick list that are no lists,
\* a wait without cond, a step that is no map
PlanInvalid ==
    Plan(Policy(8, 1),
         List(<<Put(ToolStepContinue("kb_query", <<>>), "fallback", S("later")),
                Put(Put(IfStep(CondTrue, <<>>, <<>>), "then", S("go")), "on_fail", S("continue")),
                Put(Map([type |-> S("wait")]), "on_fail", S("continue")),
                Put(Put(WaitStep(CondTrue, 1, 1, <<>>, <<>>), "tick", S("tock")),
                    "on_fail", S("continue")),
                Put(Map([type |-> S("if")]), "on_fail", S("continue")),
                S("not a step")>>))

\* fields whose conversion raises: a type that is no string, a timeout that is no number
PlanRaises ==
    Plan(Policy(8, 1),
         List(<<IfStep(CmpCond("==", Ref("vars", "x"), Num(5)),
                       <<Map([type |-> Num(7)])>>,
                       <<Put(WaitStep(CondTrue, 1, 1, <<>>, <<>>), "timeout_s", S("soon"))>>)>>))

\* a result saved under the alias "last", read back after another step
PlanAlias ==
    Plan(Policy(6, 1),
         List(<<Put(ToolStep("kb_query"), "save_as", S("last")),
                SetStep("x", Num(1)),
                SetStep("seen", Ref("last", "found"))>>))

\* a variable whose name holds a dot, read back by the next step
PlanDotted ==
    Plan(Policy(6, 1),
         List(<<Put(SetStep("a", Num(5)), "var", Str(<<"a", ".", "b">>)),
                SetStep("y", Ref("vars", "x")),
                SetStep("y", Num(2))>>))

\* a branch on a variable that the initial state may give
PlanBranch ==
    Plan(Policy(6, 1),
         List(<<IfStep(CmpCond("==", Ref("vars", "x"), Num(5)),
                       <<SetStep("y", Num(1))>>,
                       <<SetStep("y", Num(0)), SetStep("z", Ref("vars", "y"))>>),
                SetStep("after", Num(1))>>))

\* conditions that are no well-formed conditions
MalformedConds ==
    <<S("x"), Null, List(<<CondTrue>>),
      Map([left |-> Num(1), right |-> Num(1)]),
      Map([op |-> Num(1), left |-> Num(1), right |-> Num(1)]),
      CmpCond("~=", Num(1), Num(1)),
      Map([op |-> S("not"), cond |-> S("x")]),
      Map([op |-> S("not")]),
      Map([op |-> S("or"), conds |-> List(<<S("x"), Num(1)>>)]),
      Map([op |-> S("and"), conds |-> List(<<S("x")>>)]),
      Map([op |-> S("and"), conds |-> List(<<CondTrue, Null>>)])>>

\* if steps whose conditions are malformed
PlanBadCond ==
    Plan(Policy(ExecMaxSteps, 1),
         List([i \in 1..Len(MalformedConds) |->
                IF IsDict(MalformedConds[i])
                THEN IfStep(MalformedConds[i], <<SetStep("y", Num(1))>>, <<SetStep("n", Num(1))>>)
                ELSE SetStep("skip", Num(i))]))

\* a variable that is given the vars object itself, then another set
PlanSelfRef ==
    Plan(Policy(6, 1),
         List(<<SetStep("snap", Str(<<"$", "vars", ".">>)),
                SetStep("z", Num(1))>>))

\* a fallback inside a branch whose if step carries onFail continue, then a step
\* with a fallback whose onFail is neither stop nor continue
PlanNestedFallback ==
    Plan(Policy(8, 1),
         List(<<Put(IfStep(CondTrue,
                           <<ToolStepContinue("drive", <<ToolStep("drive")>>),
                             SetStep("y", Num(1))>>, <<>>),
                    "on_fail", S("continue")),
                Put(ToolStepContinue("kb_query", <<SetStep("fb", Num(1))>>),
                    "on_fail", S("retry")),
                SetStep("why", Ref("last", "error"))>>))

\* a tool step whose args is an empty list
PlanEmptyArgs == Plan(Policy(6, 1), List(<<Put(ToolStep("say"), "args", List(<<>>))>>))

\* a wait whose tick is a wait with a tick step; both conditions hold
PlanNestedWait ==
    Plan(Policy(3, 1),
         List(<<WaitStep(CondTrue, 1, 1,
                         <<WaitStep(CondTrue, 1, 1, <<SetStep("n", Num(1))>>, <<>>)>>,
                         <<>>)>>))

Plans == <<PlanBasic, PlanFallback, PlanNestedStop, PlanBudget, PlanWaitTick,
           PlanWaitRefresh, PlanWaitOnly, PlanBadPolicy, PlanBadSteps, PlanMalformed,
           PlanInvalid, PlanRaises, PlanAlias, PlanDotted, PlanBranch,
           PlanBadCond, PlanSelfRef, PlanLoose, PlanWaitBoth, PlanNotify,
           PlanNestedFallback, PlanEmptyArgs, PlanNestedWait>>

InitialStates ==
    <<Null, Map([vars |-> Map([x |-> Num(6)]), save |-> EmptyMap, last |-> EmptyMap])>>

\* what the tool invoker can do with a call: return a value or raise
Returns(value) == [kind |-> "return", value |-> value]
Raises(msg) == [kind |-> "raise", value |-> S(msg)]

ToolBehaviours(name) ==
    CASE name = "kb_query" ->
            <<Returns(Map([ok |-> Bool(TRUE), found |-> Bool(TRUE), label |-> S("bottle")])),
              Returns(Map([ok |-> Bool(FALSE), error |-> S("boom")]))>>
      [] name = "say" ->
            <<Returns(Map([said |-> Bool(TRUE)])),
              Returns(Map([error |-> S("mute")])),
              Raises("no speaker")>>
      [] name = "notify" ->
            <<Returns(List(<<>>)),
              Returns(Map([ok |-> S("yes"), sent |-> Num(1)]))>>
      [] OTHER -> <<Returns(List(<<>>))>>

ExecutorConfigs ==
    <<[allow_tools |-> [given |-> FALSE, names |-> {}], max_steps |-> ExecMaxSteps, per_step_timeout_s |-> ExecPerStepTimeout],
      [allow_tools |-> [given |-> TRUE, names |-> {"kb_query", "say"}], max_steps |-> ExecMaxSteps,
       per_step_timeout_s |-> ExecPerStepTimeout]>>

RunIds == {"r1"}

----------------------------------------------------------------------------
(* the state machine *)

Init ==
    /\ store = <<>>
    /\ task = <<>>
    /\ hist = <<>>
    /\ now = 0
    /\ \E i \in 1..Len(ExecutorConfigs) : executor = ExecutorConfigs[i]

Obs(h, ev) == [h EXCEPT !.events = @ \o ev]

Apply(r, out) ==
    /\ store' = [store EXCEPT ![r] = out.st]
    /\ task' = [task EXCEPT ![r] = out.tk]
    /\ hist' = [hist EXCEPT ![r] = Obs(@, out.ev)]

\* McpExecutor.execute_plan, lines 39-41: the run is created and its thread started
ExecutePlan(r, plan, initial_state) ==
    /\ r \notin DOMAIN store
    /\ store' = (r :> McpRunState(plan, initial_state)) @@ store
    /\ task' = (r :> [pc |-> "start", stack |-> <<>>, ret |-> NoRet,
                      max_steps |-> 0, per_step_timeout |-> 0, abandoned |-> 0]) @@ task
    /\ hist' = (r :> [cancelLen |-> -1, events |-> <<>>, returned |-> FALSE, snaps |-> <<>>,
                      fin |-> <<>>, workers |-> <<>>]) @@ hist
    /\ UNCHANGED <<now, executor>>

\* an execute_plan that joins the run's thread before it returns
ExecuteReturnAfterJoin(r) ==
    /\ r \in DOMAIN hist /\ ~hist[r].returned
    /\ task[r].pc \in {"ended", "dead"}
    /\ hist' = [hist EXCEPT ![r].returned = TRUE]
    /\ UNCHANGED <<store, task, now, executor>>

\* McpExecutor.execute_plan, line 42: the caller has the run id
ExecuteReturn(r) ==
    /\ r \in DOMAIN hist /\ ~hist[r].returned
    /\ hist' = [hist EXCEPT ![r].returned = TRUE]
    /\ UNCHANGED <<store, task, now, executor>>

\* a cancel that reaches every run of the store
CancelEveryRun(r) ==
    /\ IF r \in DOMAIN store
       THEN /\ store' = [q \in DOMAIN store |-> cancel(store[q])]
            /\ hist' = [hist EXCEPT ![r].cancelLen =
                            IF @ = -1 /\ store[r].status = "running"
                            THEN Len(store[r].steps) ELSE @]
       ELSE UNCHANGED <<store, hist>>
    /\ UNCHANGED <<task, now, executor>>

\* McpRunStore.cancel, from any thread at any time
Cancel(r) ==
    /\ IF r \in DOMAIN store
       THEN /\ store' = [store EXCEPT ![r] = cancel(@)]
            /\ hist' = [hist EXCEPT ![r].cancelLen =
                            IF @ = -1 /\ store[r].status = "running"
                            THEN Len(store[r].steps) ELSE @]
       ELSE UNCHANGED <<store, hist>>
    /\ UNCHANGED <<task, now, executor>>

\* a start of the run task that leaves finished_ts as it finds it
RunStartKeepsFinished(r) ==
    /\ r \in DOMAIN task /\ task[r].pc = "start"
    /\ store' = [store EXCEPT ![r].status = "running", ![r].error = Null]
    /\ task' = [task EXCEPT ![r].pc = "setup"]
    /\ UNCHANGED <<now, executor, hist>>

\* _run, lines 45-52
RunStart(r) ==
    /\ r \in DOMAIN task /\ task[r].pc = "start"
    /\ store' = [store EXCEPT ![r].status = "running", ![r].error = Null,
                              ![r].finished_ts = Null]
    /\ task' = [task EXCEPT ![r].pc = "setup"]
    /\ UNCHANGED <<now, executor, hist>>

\* a seeding in which the plan's value replaces the one the run already has
SeedVarsPlanWins(vars_, plan_vars) ==
    IF IsDict(plan_vars)
    THEN Map([k \in (DOMAIN plan_vars.v) \cup (DOMAIN vars_.v) |->
                IF k \in DOMAIN plan_vars.v THEN plan_vars.v[k] ELSE vars_.v[k]])
    ELSE vars_

\* _run, lines 61-65: plan.vars gives every key that vars does not have yet
SeedVars(vars_, plan_vars) ==
    IF IsDict(plan_vars)
    THEN Map([k \in (DOMAIN plan_vars.v) \cup (DOMAIN vars_.v) |->
                IF k \in DOMAIN vars_.v THEN vars_.v[k] ELSE plan_vars.v[k]])
    ELSE vars_

\* _run, lines 54-72: the limits, the plan's variables, the call of _exec_steps
RunSetup(r) ==
    /\ r \in DOMAIN task /\ task[r].pc = "setup"
    /\ LET st == store[r]
           tk == task[r]
           plan == PyOr(st.plan, EmptyMap)
           policy == PyOr(Get(plan, "policy"), EmptyMap)
           ms == PyNumber(IF "max_steps" \in DOMAIN policy.v THEN policy.v["max_steps"]
                          ELSE Num(executor.max_steps))
           pt == PyNumber(IF "per_step_timeout_s" \in DOMAIN policy.v
                          THEN policy.v["per_step_timeout_s"]
                          ELSE Num(executor.per_step_timeout_s))
           plan_vars == PyOr(Get(plan, "vars"), EmptyMap)
           seeded == SeedVars(st.vars, plan_vars)
           steps == PyOr(Get(plan, "steps"), EmptyList)
       IN IF ~IsDict(policy) \/ ~ms.ok \/ ~pt.ok
          THEN Apply(r, Out(st, Raise(tk), <<Event("raise", <<>>, "policy", 0, Null)>>))
          ELSE IF ~IsList(steps)
          THEN Apply(r, Out(finish([st EXCEPT !.vars = seeded], "failed",
                                   S("plan.steps must be a list")),
                            [tk EXCEPT !.pc = "ended"], <<>>))
          ELSE Apply(r, Out([st EXCEPT !.vars = seeded],
                            CallSteps([tk EXCEPT !.pc = "exec",
                                                 !.max_steps = Min(ms.n, executor.max_steps),
                                                 !.per_step_timeout =
                                                     Min(pt.n, executor.per_step_timeout_s)],
                                      steps.v, <<"steps">>),
                            <<>>))
    /\ UNCHANGED <<now, executor>>

\* is the top frame of r's thread an _exec_steps frame at pc?
AtSteps(r, pc) ==
    /\ r \in DOMAIN task /\ task[r].pc = "exec"
    /\ Top(task[r]).k = "steps" /\ Top(task[r]).pc = pc

AtWait(r, pc) ==
    /\ r \in DOMAIN task /\ task[r].pc = "exec"
    /\ Top(task[r]).k = "wait" /\ Top(task[r]).pc = pc

Cancelled(st) == st.cancelled \/ st.status = "cancelled"

\* _exec_steps, lines 94-96: the next iteration of the loop, or its end
StepsTop(r) ==
    /\ AtSteps(r, "top")
    /\ LET st == store[r]
           tk == task[r]
           f == Top(tk)
       IN IF f.idx >= Len(f.steps) THEN Apply(r, Out(st, ReturnSteps(tk, TRUE), <<>>))
          ELSE IF Cancelled(st) THEN Apply(r, Out(st, ReturnSteps(tk, FALSE), <<>>))
          ELSE Apply(r, Out(st, [tk EXCEPT !.stack = SetTop(@, [f EXCEPT !.pc = "go"])], <<>>))
    /\ UNCHANGED <<now, executor>>

\* _exec_steps, lines 98-107: the checks of the step and its dispatch
StepsDispatch(r) ==
    /\ AtSteps(r, "go")
    /\ LET st == store[r]
           tk == task[r]
           step == CurStep(tk)
           path == CurPath(tk)
           n == Len(st.steps)
       IN IF ~IsDict(step)
          THEN Apply(r, Out(_fail(st, ErrAt("invalid step at ", path)), ReturnSteps(tk, FALSE),
                            <<Event("abort", path, "invalid", n, Null)>>))
          ELSE IF _step_count(st) >= tk.max_steps
          THEN Apply(r, Out(_fail(st, Str(<<"max_steps exceeded (", NumStr(tk.max_steps), ")">>)),
                            ReturnSteps(tk, FALSE),
                            <<Event("abort", path, "budget", n, Null)>>))
          ELSE IF ~IsStr(PyOr(Get(step, "type"), S("")))
          THEN Apply(r, Out(st, Raise(tk), <<Event("raise", path, "type", n, Null)>>))
          ELSE LET out == _dispatch_step(st, tk, step, path, executor.allow_tools) IN
               Apply(r, Out(out.st, out.tk, <<Event("dispatch", path, "", n, Null)>> \o out.ev))
    /\ UNCHANGED <<now, executor>>

\* _call_with_timeout: the worker sets done in time; then lines 196-218
ToolReturn(r, i) ==
    /\ AtSteps(r, "call")
    /\ LET name == KeyOf(Top(task[r]).call.v) IN
       /\ i \in 1..Len(ToolBehaviours(name))
       /\ LET b == ToolBehaviours(name)[i]
              out == ToolStepFinish(store[r], task[r], worker(b))
          IN Apply(r, Out(out.st, out.tk,
                          <<Event("result", CurPath(task[r]), b.kind, Len(store[r].steps), b.value)>>))
    /\ UNCHANGED <<now, executor>>

\* _call_with_timeout: done is not set after timeout_s; then lines 196-218
ToolTimeout(r) ==
    /\ AtSteps(r, "call")
    /\ LET tk == task[r]
           later == now + (IF tk.per_step_timeout > 0
                           THEN tk.per_step_timeout * TicksPerSecond ELSE 0)
           out == ToolStepFinish(store[r], tk, ToolTimeoutResult(tk.per_step_timeout))
           entry == out.st.steps[Len(out.st.steps)]
       IN /\ now' = later
          /\ store' = [store EXCEPT ![r] = [out.st EXCEPT !.steps[Len(out.st.steps)] =
                                                [entry EXCEPT !.ended_ts = Num(later)]]]
          /\ task' = [task EXCEPT ![r] = [out.tk EXCEPT !.abandoned = @ + 1]]
          /\ hist' = [hist EXCEPT
                        ![r].events = Append(@, Event("timeout", CurPath(tk), "",
                                                      Len(store[r].steps), Null)),
                        ![r].workers = Append(@, [path |-> CurPath(tk),
                                                  from |-> Len(hist[r].events) + 1,
                                                  to |-> -1])]
    /\ UNCHANGED executor

\* an abandoned worker whose result reaches the run's save and last
LateWorkerStoresResult(r) ==
    /\ r \in DOMAIN task /\ task[r].abandoned > 0
    /\ task' = [task EXCEPT ![r].abandoned = @ - 1]
    /\ \E w \in 1..Len(hist[r].workers) :
            /\ hist[r].workers[w].to = -1
            /\ hist' = [hist EXCEPT ![r].workers[w].to = Len(hist[r].events)]
            /\ LET result == Map([ok |-> Bool(TRUE), late |-> Bool(TRUE)])
               IN store' = [store EXCEPT ![r].save = Put(@, "late", result),
                                         ![r].last = result]
    /\ UNCHANGED <<now, executor>>

\* a worker that _call_with_timeout has given up on ends; hist keeps which
\* one it was and how many events the run had seen by then
LateWorker(r) ==
    /\ r \in DOMAIN task /\ task[r].abandoned > 0
    /\ task' = [task EXCEPT ![r].abandoned = @ - 1]
    /\ \E w \in 1..Len(hist[r].workers) :
            /\ hist[r].workers[w].to = -1
            /\ hist' = [hist EXCEPT ![r].workers[w].to = Len(hist[r].events)]
    /\ UNCHANGED <<store, now, executor>>

\* _exec_steps, lines 109-133: the step has returned (ok, result)
StepsAfter(r) ==
    /\ AtSteps(r, "ret")
    /\ LET st == store[r]
           tk == task[r]
           f == Top(tk)
       IN IF tk.ret.ok
          THEN Apply(r, Out(st, [tk EXCEPT !.stack = SetTop(@, [f EXCEPT !.idx = @ + 1, !.pc = "top"]),
                                           !.ret = NoRet], <<>>))
          ELSE Apply(r, OnFail(st, tk, CurStep(tk), CurPath(tk), tk.ret.result))
    /\ UNCHANGED <<now, executor>>

\* a return of the fallback list that leaves last as the fallback left it
FallbackReturnKeepsLast(r) ==
    /\ AtSteps(r, "fb")
    /\ LET st == store[r]
           tk == task[r]
           f == Top(tk)
           ev == Event("fb", CurPath(tk), IF tk.ret.ok THEN "ok" ELSE "failed", Len(st.steps), Null)
       IN IF ~tk.ret.ok THEN Apply(r, Out(st, ReturnSteps(tk, FALSE), <<ev>>))
          ELSE Apply(r, Out(st,
                            [tk EXCEPT !.stack = SetTop(@, [f EXCEPT !.idx = @ + 1, !.pc = "top",
                                                                     !.res = Null]),
                                       !.ret = NoRet],
                            <<ev>>))
    /\ UNCHANGED <<now, executor>>

\* _exec_steps, lines 125-133: the fallback list has returned
FallbackReturn(r) ==
    /\ AtSteps(r, "fb")
    /\ LET st == store[r]
           tk == task[r]
           f == Top(tk)
           ev == Event("fb", CurPath(tk), IF tk.ret.ok THEN "ok" ELSE "failed", Len(st.steps), Null)
       IN IF ~tk.ret.ok THEN Apply(r, Out(st, ReturnSteps(tk, FALSE), <<ev>>))
          ELSE Apply(r, Out([st EXCEPT !.last =
                                IF IsDict(f.res) THEN f.res
                                ELSE Map([ok |-> Bool(FALSE), error |-> S("step failed (soft)")])],
                            [tk EXCEPT !.stack = SetTop(@, [f EXCEPT !.idx = @ + 1, !.pc = "top",
                                                                     !.res = Null]),
                                       !.ret = NoRet],
                            <<ev>>))
    /\ UNCHANGED <<now, executor>>

\* _exec_if_step, lines 269-270: the branch has returned
IfReturn(r) ==
    /\ AtSteps(r, "if")
    /\ LET st == store[r]
           tk == task[r]
       IN Apply(r, Out(st, ReturnDispatch(tk, tk.ret.ok,
                            IF IsDict(st.last) THEN st.last
                            ELSE Map([ok |-> Bool(FALSE), error |-> S("if branch failed")])),
                       <<Event("if_ret", CurPath(tk), IF tk.ret.ok THEN "ok" ELSE "failed",
                               Len(st.steps), Null)>>))
    /\ UNCHANGED <<now, executor>>

\* the result a wait step returns when a tick or refresh list failed
WaitListFailed(st, what) ==
    IF IsDict(st.last) THEN st.last ELSE Map([ok |-> Bool(FALSE), error |-> S(what)])

\* after the tick list: the refresh list (lines 320-322), or the condition
ToRefresh(tk) ==
    LET f == Top(tk)
        refresh_steps == PyOr(Get(f.step, "refresh"), EmptyList)
    IN IF Truthy(refresh_steps)
       THEN CallSteps([tk EXCEPT !.stack = SetTop(@, [f EXCEPT !.pc = "refresh"]), !.ret = NoRet],
                      refresh_steps.v, f.path \o <<".", "refresh">>)
       ELSE [tk EXCEPT !.stack = SetTop(@, [f EXCEPT !.pc = "cond"]), !.ret = NoRet]

\* the wait result that is logged, stored in last and returned (lines 303-307, 310-314, 325-329, 333-337)
WaitEnds(st, tk, ok, res) ==
    Out(_log_step([st EXCEPT !.last = res], "wait", S("wait"), EmptyMap, Top(tk).path, ok, res,
                  Null, Null),
        ReturnWait(tk, ok, res), <<>>)

WaitTimeoutResult(timeout_ticks) ==
    Map([ok |-> Bool(TRUE), wait |-> S("timeout"), timeout_s |-> Num(timeout_ticks \div TicksPerSecond)])

\* a wait step that reports the end of its time as a failure
WaitTimedOutAsFailure(st, tk) ==
    WaitEnds(st, tk, FALSE, Map([ok |-> Bool(FALSE), error |-> S("wait timeout")]))

\* _exec_wait_step, lines 333-337: the loop has run out of time
WaitTimedOut(st, tk) == WaitEnds(st, tk, TRUE, WaitTimeoutResult(Top(tk).timeout_s))

\* _exec_wait_step, lines 301-318 and 333-337: the head of the loop
WaitLoop(r) ==
    /\ AtWait(r, "loop")
    /\ LET st == store[r]
           tk == task[r]
           f == Top(tk)
           tick_steps == PyOr(Get(f.step, "tick"), EmptyList)
       IN IF ~((now - f.started) < f.timeout_s)
          THEN LET out == WaitTimedOut(st, tk) IN
               Apply(r, Out(out.st, out.tk,
                            <<Event("wait_timeout", f.path, "", Len(st.steps), Null)>>))
          ELSE IF Cancelled(st)
          THEN Apply(r, WaitEnds(st, tk, FALSE, Map([ok |-> Bool(FALSE), error |-> S("cancelled")])))
          ELSE IF _step_count(st) >= tk.max_steps
          THEN Apply(r, WaitEnds(st, tk, FALSE,
                    Map([ok |-> Bool(FALSE),
                         error |-> Str(<<"max_steps exceeded (", NumStr(tk.max_steps),
                                         ") during wait">>)])))
          ELSE IF Truthy(tick_steps)
          THEN Apply(r, Out(st, CallSteps([tk EXCEPT !.stack = SetTop(@, [f EXCEPT !.pc = "tick"])],
                                          tick_steps.v, f.path \o <<".", "tick">>), <<>>))
          ELSE Apply(r, Out(st, ToRefresh(tk), <<>>))
    /\ UNCHANGED <<now, executor>>

\* a wait that goes on to refresh and cond whatever the tick list returned
WaitTickReturnIgnoresFailure(r) ==
    /\ AtWait(r, "tick")
    /\ Apply(r, Out(store[r], ToRefresh(task[r]), <<>>))
    /\ UNCHANGED <<now, executor>>

\* _exec_wait_step, lines 317-318: the tick list has returned
WaitTickReturn(r) ==
    /\ AtWait(r, "tick")
    /\ LET st == store[r]
           tk == task[r]
       IN IF ~tk.ret.ok
          THEN Apply(r, Out(st, ReturnWait(tk, FALSE, WaitListFailed(st, "wait tick failed")), <<>>))
          ELSE Apply(r, Out(st, ToRefresh(tk), <<>>))
    /\ UNCHANGED <<now, executor>>

\* _exec_wait_step, lines 321-322: the refresh list has returned
WaitRefreshReturn(r) ==
    /\ AtWait(r, "refresh")
    /\ LET st == store[r]
           tk == task[r]
           f == Top(tk)
       IN IF ~tk.ret.ok
          THEN Apply(r, Out(st, ReturnWait(tk, FALSE, WaitListFailed(st, "wait refresh failed")), <<>>))
          ELSE Apply(r, Out(st, [tk EXCEPT !.stack = SetTop(@, [f EXCEPT !.pc = "cond"]),
                                           !.ret = NoRet], <<>>))
    /\ UNCHANGED <<now, executor>>

\* _exec_wait_step, lines 324-331: the condition, then the sleep
WaitCond(r) ==
    /\ AtWait(r, "cond")
    /\ LET st == store[r]
           tk == task[r]
           f == Top(tk)
       IN IF eval_cond(Get(f.step, "cond"), StateOf(st))
          THEN /\ Apply(r, WaitEnds(st, tk, TRUE, Map([ok |-> Bool(TRUE), wait |-> S("satisfied")])))
               /\ now' = now
          ELSE IF f.poll_s < 0
          THEN /\ Apply(r, Out(st, Raise(tk), <<Event("raise", f.path, "sleep", Len(st.steps), Null)>>))
               /\ now' = now
          ELSE /\ Apply(r, Out(st, [tk EXCEPT !.stack = SetTop(@, [f EXCEPT !.pc = "loop"])], <<>>))
               /\ now' = now + f.poll_s
    /\ UNCHANGED executor

\* _run, lines 74-82: the outcome is chosen from what _exec_steps returned
RunCheck(r) ==
    /\ r \in DOMAIN task /\ task[r].pc = "after"
    /\ task' = [task EXCEPT ![r].pc =
                    IF Cancelled(store[r]) THEN "finish_cancelled"
                    ELSE IF ~task[r].ret.ok THEN "finish_failed"
                    ELSE "finish_done"]
    /\ UNCHANGED <<store, now, executor, hist>>

\* a run task that leaves the run's error as it is when the run is done
RunFinishKeepsError(r) ==
    /\ r \in DOMAIN task /\ task[r].pc \in {"finish_cancelled", "finish_failed", "finish_done"}
    /\ LET st == store[r] IN
       store' = [store EXCEPT ![r] =
            CASE task[r].pc = "finish_cancelled" -> finish(st, "cancelled", Null)
              [] task[r].pc = "finish_failed" ->
                    finish(st, "failed", PyOr(st.error, S("execution failed")))
              [] OTHER -> finish(st, "done", st.error)]
    /\ task' = [task EXCEPT ![r].pc = "ended"]
    /\ UNCHANGED <<now, executor, hist>>

\* _run, lines 75, 79, 82: the call of McpRunStore.finish
RunFinish(r) ==
    /\ r \in DOMAIN task /\ task[r].pc \in {"finish_cancelled", "finish_failed", "finish_done"}
    /\ LET st == store[r] IN
       store' = [store EXCEPT ![r] =
            CASE task[r].pc = "finish_cancelled" -> finish(st, "cancelled", Null)
              [] task[r].pc = "finish_failed" ->
                    finish(st, "failed", PyOr(st.error, S("execution failed")))
              [] OTHER -> finish(st, "done", Null)]
    /\ task' = [task EXCEPT ![r].pc = "ended"]
    /\ UNCHANGED <<now, executor, hist>>

Next ==
    \/ \E r \in RunIds, p \in 1..Len(Plans), i \in 1..Len(InitialStates) :
            ExecutePlan(r, Plans[p], InitialStates[i])
    \/ \E r \in RunIds : ExecuteReturn(r)
    \/ \E r \in RunIds : Cancel(r)
    \/ \E r \in RunIds : RunStart(r)
    \/ \E r \in RunIds : RunSetup(r)
    \/ \E r \in RunIds : StepsTop(r)
    \/ \E r \in RunIds : StepsDispatch(r)
    \/ \E r \in RunIds, i \in 1..3 : ToolReturn(r, i)
    \/ \E r \in RunIds : ToolTimeout(r)
    \/ \E r \in RunIds : LateWorker(r)
    \/ \E r \in RunIds : StepsAfter(r)
    \/ \E r \in RunIds : FallbackReturn(r)
    \/ \E r \in RunIds : IfReturn(r)
    \/ \E r \in RunIds : WaitLoop(r)
    \/ \E r \in RunIds : WaitTickReturn(r)
    \/ \E r \in RunIds : WaitRefreshReturn(r)
    \/ \E r \in RunIds : WaitCond(r)
    \/ \E r \in RunIds : RunCheck(r)
    \/ \E r \in RunIds : RunFinish(r)

Spec == Init /\ [][Next]_vars

\* run ids that no run has, the statuses and errors a caller may pass to
\* finish, and how many such calls a run gets
UnknownIds == {"r0"}
FinishStatuses == {"done", "paused"}
FinishErrors == {S("oops")}
MaxFinish == 1

\* McpRunStore.finish called by any thread with any arguments
Finish(r, status, error) ==
    /\ store' = StoreFinish(store, r, status, error).runs
    /\ IF r \in DOMAIN hist
       THEN /\ Len(hist[r].fin) < MaxFinish
            /\ hist' = [hist EXCEPT ![r].fin = Append(@, status)]
       ELSE UNCHANGED hist
    /\ UNCHANGED <<task, now, executor>>

NextStore ==
    \/ Next
    \/ \E r \in RunIds \cup UnknownIds, status \in FinishStatuses, error \in FinishErrors :
            Finish(r, status, error)

SpecStore == Init /\ [][NextStore]_vars

\* two runs of one store, created from the same plan and the same initial state
PairIds == {"r1", "r2"}

\* a wait whose tick is a tool step with a fallback and whose refresh is a branch
PlanPair ==
    Plan(Policy(8, 1),
         List(<<WaitStep(CondTrue, 1, 1,
                         <<ToolStepContinue("drive", <<SetStep("fb", Num(1))>>)>>,
                         <<IfStep(CondTrue, <<>>, <<>>)>>)>>))

InitPair ==
    /\ store = <<>>
    /\ task = <<>>
    /\ hist = <<>>
    /\ now = 0
    /\ executor = ExecutorConfigs[1]

\* a step of the thread of run r, or a cancel of run r
PairStep(r) ==
    \/ Cancel(r)
    \/ RunStart(r)
    \/ RunSetup(r)
    \/ StepsTop(r)
    \/ StepsDispatch(r)
    \/ \E i \in 1..3 : ToolReturn(r, i)
    \/ ToolTimeout(r)
    \/ LateWorker(r)
    \/ StepsAfter(r)
    \/ FallbackReturn(r)
    \/ IfReturn(r)
    \/ WaitLoop(r)
    \/ WaitTickReturn(r)
    \/ WaitRefreshReturn(r)
    \/ WaitCond(r)
    \/ RunCheck(r)
    \/ RunFinish(r)

\* the runs that are cancelled and the runs whose tool calls time out
CancelledIds == PairIds
SlowIds == {"r1"}

NextPair ==
    \/ \E r \in PairIds : ExecutePlan(r, PlanPair, InitialStates[2])
    \/ \E r \in CancelledIds : Cancel(r)
    \/ \E r \in PairIds : RunStart(r)
    \/ \E r \in PairIds : RunSetup(r)
    \/ \E r \in PairIds : StepsTop(r)
    \/ \E r \in PairIds : StepsDispatch(r)
    \/ \E r \in PairIds, i \in 1..3 : ToolReturn(r, i)
    \/ \E r \in SlowIds : ToolTimeout(r)
    \/ \E r \in PairIds : LateWorker(r)
    \/ \E r \in PairIds : StepsAfter(r)
    \/ \E r \in PairIds : FallbackReturn(r)
    \/ \E r \in PairIds : IfReturn(r)
    \/ \E r \in PairIds : WaitLoop(r)
    \/ \E r \in PairIds : WaitTickReturn(r)
    \/ \E r \in PairIds : WaitRefreshReturn(r)
    \/ \E r \in PairIds : WaitCond(r)
    \/ \E r \in PairIds : RunCheck(r)
    \/ \E r \in PairIds : RunFinish(r)

SpecPair == InitPair /\ [][NextPair]_vars

\* how many snapshots of a run are taken and how far they are looked into
MaxSnaps == 1
DerefDepth == 2

\* what a caller sees in x, given the present content of the run's vars
RECURSIVE Deep(_, _, _)
Deep(x, heap, depth) ==
    IF x = LiveVars THEN (IF depth = 0 THEN x ELSE Deep(heap, heap, depth - 1))
    ELSE IF IsDict(x) THEN Map([k \in DOMAIN x.v |-> Deep(x.v[k], heap, depth)])
    ELSE IF IsList(x) THEN List([i \in 1..Len(x.v) |-> Deep(x.v[i], heap, depth)])
    ELSE x

\* McpRunStore.to_dict called by any thread: the caller keeps what it returned
ToDict(r) ==
    /\ r \in DOMAIN store /\ Len(hist[r].snaps) < MaxSnaps
    /\ hist' = [hist EXCEPT ![r].snaps =
                    Append(@, [dict |-> to_dict(store[r]),
                               seen |-> Deep(to_dict(store[r]), store[r].vars, DerefDepth)])]
    /\ UNCHANGED <<store, task, now, executor>>

NextSnap ==
    \/ Next
    \/ \E r \in RunIds : ToDict(r)

SpecSnap == Init /\ [][NextSnap]_vars

----------------------------------------------------------------------------
(* what the claims speak of *)

Runs == DOMAIN store

Events(r) == hist[r].events

Ended(r) == task[r].pc = "ended"

\* the step of a plan at a path such as steps[0].then[1]
RECURSIVE StepAt(_, _)
StepAt(value, path) ==
    IF path = <<>> THEN value
    ELSE IF Head(path) = "." THEN StepAt(value, Tail(path))
    ELSE IF Head(path) = "[" THEN
        StepAt(value.v[NumeralValue(path[2]) + 1], SubSeq(path, 4, Len(path)))
    ELSE StepAt(Get(value, Head(path)), Tail(path))

\* the path of the step after the one at p in the same list, <<>> if p is the last
NextSibling(plan, p) ==
    LET lp == SubSeq(p, 1, Len(p) - 3)
        idx == NumeralValue(p[Len(p) - 1])
    IN IF idx + 1 < Len(StepAt(plan, lp).v) THEN StepPath(lp, idx + 1) ELSE <<>>

\* control has reached the step after p: the next event is that step's
ReachesSibling(r, p, k) ==
    (k < Len(Events(r)) /\ NextSibling(store[r].plan, p) # <<>> /\ ~store[r].cancelled)
        => /\ Events(r)[k + 1].path = NextSibling(store[r].plan, p)
           /\ Events(r)[k + 1].e \in {"dispatch", "abort", "raise"}

IsPrefix(p, q) == Len(p) <= Len(q) /\ SubSeq(q, 1, Len(p)) = p

\* C1: a run's status only ever changes from running to done, failed or
\* cancelled; a terminal status never changes again.
C1_StatusOneWay ==
    [][\A r \in Runs :
          store'[r].status # store[r].status
              => store[r].status = "running" /\ store'[r].status \in Terminal]_vars

\* C2: every run reaches a terminal status when its background task ends: no
\* failure escapes the task and leaves the run in status running.
C2_TaskEndsTerminal ==
    \A r \in Runs : task[r].pc \in {"ended", "dead"} => store[r].status \in Terminal

\* C3: if Cancel returned true while the run's status was running, then once
\* the task has ended the status is cancelled and the error is null.
C3_CancelWins ==
    \A r \in Runs :
        hist[r].cancelLen >= 0 /\ Ended(r)
            => store[r].status = "cancelled" /\ store[r].error = Null

\* C4: after Cancel has returned true for a running run, no further entry is
\* appended to the run's step log.
C4_NoLogAfterCancel ==
    \A r \in Runs : hist[r].cancelLen >= 0 => Len(store[r].steps) = hist[r].cancelLen

\* C5: once a run's status is terminal, its vars, save, last, error and
\* finishedTs never change again.
C5_TerminalFrozen ==
    [][\A r \in Runs :
          store[r].status \in Terminal
              => /\ store'[r].vars = store[r].vars
                 /\ store'[r].save = store[r].save
                 /\ store'[r].last = store[r].last
                 /\ store'[r].error = store[r].error
                 /\ store'[r].finished_ts = store[r].finished_ts]_vars

\* the failures of steps whose onFail is stop, with a result {ok: false, error: e}
StopFailures(r) ==
    {i \in 1..Len(Events(r)) :
        /\ Events(r)[i].e = "fail" /\ Events(r)[i].a = "stop"
        /\ IsDict(Events(r)[i].v)
        /\ ~ResultOk(Events(r)[i].v)
        /\ Truthy(Get(Events(r)[i].v, "error"))}

\* C6: when a step whose onFail is stop fails with {ok: false, error: e}, at any
\* depth, nothing is dispatched, invoked or logged afterwards and the run
\* (unless cancelled) ends failed with error e.
C6_StopFailsRun ==
    \A r \in Runs : \A i \in StopFailures(r) :
        /\ \A j \in (i + 1)..Len(Events(r)) : Events(r)[j].e \notin {"dispatch", "invoke"}
        /\ Len(store[r].steps) = Events(r)[i].n
        /\ Ended(r) /\ ~store[r].cancelled
              => /\ store[r].status = "failed"
                 /\ store[r].error = Get(Events(r)[i].v, "error")

\* C6 seen on a finished run
C6_Witness ==
    \E r \in Runs :
        /\ Ended(r) /\ ~store[r].cancelled /\ StopFailures(r) # {}
        /\ store[r].status = "failed"
        /\ \E i \in StopFailures(r) : Len(Events(r)[i].path) > 4

\* the failures under onFail continue of tool steps that have a fallback list
SoftFailures(r) ==
    {i \in 1..Len(Events(r)) :
        /\ Events(r)[i].e = "fail" /\ Events(r)[i].a = "continue"
        /\ LET step == StepAt(store[r].plan, Events(r)[i].path) IN
           /\ Lower(Strip(Get(step, "type").v)) = <<"tool">>
           /\ IsList(Get(step, "fallback")) /\ Len(Get(step, "fallback").v) > 0}

FallbackPath(p) == p \o <<".", "fallback">>

\* the event that records the return of the fallback list started at event i, 0 if none yet
FallbackEnd(r, i) ==
    LET js == {j \in (i + 1)..Len(Events(r)) :
                    Events(r)[j].e = "fb" /\ Events(r)[j].path = Events(r)[i].path}
    IN IF js = {} THEN 0 ELSE CHOOSE j \in js : \A k \in js : j <= k

\* the paths of the steps of list lp dispatched among events lo..hi, in order
RECURSIVE DirectDispatches(_, _, _, _)
DirectDispatches(r, lp, lo, hi) ==
    IF lo > hi THEN <<>>
    ELSE (IF /\ Events(r)[lo].e = "dispatch"
             /\ Len(Events(r)[lo].path) = Len(lp) + 3
             /\ IsPrefix(lp, Events(r)[lo].path)
          THEN <<Events(r)[lo].path>> ELSE <<>>)
         \o DirectDispatches(r, lp, lo + 1, hi)

\* no step failed for good: nothing stopped the run, no list was cut short
AllSoft(r) ==
    \A j \in 1..Len(Events(r)) :
        /\ Events(r)[j].e \notin {"abort", "raise"}
        /\ Events(r)[j].e = "fail" => Events(r)[j].a = "continue"
        /\ Events(r)[j].e = "fb" => Events(r)[j].a = "ok"

\* the variables that the set steps of a list assign
SetVars(steps) ==
    {KeyOf(Strip(Get(steps[k], "var").v)) : k \in {k \in 1..Len(steps) :
        IsDict(steps[k]) /\ Get(steps[k], "type") = S("set") /\ IsStr(Get(steps[k], "var"))}}

\* C7: when a tool step with onFail continue fails, its fallback steps run
\* before anything else; when the fallback list succeeds each of its steps was
\* dispatched exactly once, in order; the failure does not fail the run: a run
\* in which no step failed for good ends done (unless cancelled), with the
\* variables the fallback assigned present in vars.
C7_FallbackThenContinue ==
    \A r \in Runs : \A i \in SoftFailures(r) :
        LET p == Events(r)[i].path
            fb == Get(StepAt(store[r].plan, p), "fallback").v
            j == FallbackEnd(r, i)
            hi == IF j = 0 THEN Len(Events(r)) ELSE j - 1
        IN /\ \A k \in (i + 1)..hi : IsPrefix(FallbackPath(p), Events(r)[k].path)
           /\ (j # 0 /\ Events(r)[j].a = "ok")
                => /\ DirectDispatches(r, FallbackPath(p), i + 1, j)
                        = [k \in 1..Len(fb) |-> StepPath(FallbackPath(p), k - 1)]
                   /\ ReachesSibling(r, p, j)
                   /\ (Ended(r) /\ ~store[r].cancelled /\ AllSoft(r))
                        => /\ store[r].status = "done" /\ store[r].error = Null
                           /\ SetVars(fb) \subseteq DOMAIN store[r].vars.v

C7_Witness ==
    \E r \in Runs : \E i \in SoftFailures(r) :
        /\ FallbackEnd(r, i) # 0 /\ Events(r)[FallbackEnd(r, i)].a = "ok"
        /\ Ended(r) /\ store[r].status = "done"
        /\ Get(store[r].vars, "recovered") = Bool(TRUE)

\* C8: a step is never dispatched while the log holds maxSteps entries or more,
\* and a run that met the budget (unless cancelled) ends failed with an error
\* that begins with "max_steps exceeded".
C8_BudgetFailsRun ==
    \A r \in Runs :
        /\ \A i \in 1..Len(Events(r)) :
              Events(r)[i].e = "dispatch" => Events(r)[i].n < task[r].max_steps
        /\ (/\ \E i \in 1..Len(Events(r)) : Events(r)[i].e = "abort" /\ Events(r)[i].a = "budget"
            /\ Ended(r) /\ ~store[r].cancelled)
              => /\ store[r].status = "failed"
                 /\ IsStr(store[r].error)
                 /\ store[r].error.v[1] = "max_steps exceeded ("

WaitTimeouts(r) == {i \in 1..Len(Events(r)) : Events(r)[i].e = "wait_timeout"}

\* C9: a wait step that runs out of time ends as a success: its log entry has
\* ok = true and result.wait = "timeout", last is that result, the enclosing
\* list does not treat it as a failure, and a run whose last top-level step it
\* was ends done (unless cancelled).
C9_WaitTimeoutIsSuccess ==
    \A r \in Runs : \A i \in WaitTimeouts(r) :
        LET ev == Events(r)[i]
            entry == store[r].steps[ev.n + 1]
            last == i = Len(Events(r))
        IN /\ entry.kind = "wait" /\ entry.ok = TRUE /\ entry.error = Null
           /\ Get(entry.result, "wait") = S("timeout")
           /\ Get(entry.result, "ok") = Bool(TRUE)
           /\ last => /\ Get(store[r].last, "wait") = S("timeout")
                      /\ Get(store[r].last, "ok") = Bool(TRUE)
                      /\ Put(store[r].last, "path", Str(ev.path)) = entry.result
                      /\ task[r].pc = "exec" =>
                            /\ Top(task[r]).k = "steps"
                            /\ Top(task[r]).pc = "ret" => task[r].ret.ok
                            /\ Top(task[r]).pc \in {"ret", "top", "go"}
                      /\ (Ended(r) /\ ~store[r].cancelled /\ Len(ev.path) = 4)
                            => store[r].status = "done" /\ store[r].error = Null
           /\ ~last => ~(Events(r)[i + 1].e = "fail" /\ Events(r)[i + 1].path = ev.path)
           /\ ReachesSibling(r, ev.path, i)

C9_Witness ==
    \E r \in Runs : \E i \in WaitTimeouts(r) :
        /\ i = Len(Events(r)) /\ Ended(r) /\ store[r].status = "done"

C9_WitnessSibling ==
    \E r \in Runs : \E i \in WaitTimeouts(r) :
        /\ i < Len(Events(r)) /\ Events(r)[i + 1].e = "dispatch"

ToolTimeouts(r) == {i \in 1..Len(Events(r)) : Events(r)[i].e = "timeout"}

\* C10: a tool call that has not completed within perStepTimeout gives the
\* result {ok: false, error: "tool timeout after <n>s"}; the result is stored in
\* save and in the step log, the call is over while the worker may still run,
\* and the step's onFail policy handles it like any failure.
C10_ToolTimeout ==
    \A r \in Runs : \A i \in ToolTimeouts(r) :
        LET ev == Events(r)[i]
            step == StepAt(store[r].plan, ev.path)
            entry == store[r].steps[ev.n + 1]
            msg == Str(<<"tool timeout after ", NumStr(task[r].per_step_timeout), ".", "0s">>)
            res == Map([ok |-> Bool(FALSE), error |-> msg])
            last == i = Len(Events(r))
        IN /\ entry.kind = "tool" /\ entry.ok = FALSE /\ entry.error = msg
           /\ entry.result = Put(res, "path", Str(ev.path))
           /\ last => /\ Get(store[r].save, KeyOf(Strip(Get(step, "name").v))) = res
                      /\ IsStr(Get(step, "save_as"))
                            => Get(store[r].save, KeyOf(Strip(Get(step, "save_as").v))) = res
                      /\ store[r].last = res
                      /\ task[r].pc = "exec" /\ Top(task[r]).pc = "ret"
                      /\ ~task[r].ret.ok /\ task[r].ret.result = res
           /\ ~last => /\ Events(r)[i + 1].e = "fail"
                       /\ Events(r)[i + 1].path = ev.path
                       /\ Events(r)[i + 1].a = _on_fail_mode(step)
                       /\ Events(r)[i + 1].v = res
                       /\ (i + 1 = Len(Events(r)) /\ _on_fail_mode(step) = "stop"
                               /\ ~store[r].cancelled)
                            => store[r].error = msg
                       /\ (i + 1 < Len(Events(r)) /\ _on_fail_mode(step) = "continue"
                               /\ Truthy(Get(step, "fallback")) /\ IsList(Get(step, "fallback")))
                            => \/ Events(r)[i + 2].path = StepPath(FallbackPath(ev.path), 0)
                               \/ store[r].cancelled

C10_Witness ==
    \E r \in Runs : \E i \in ToolTimeouts(r) :
        /\ Ended(r) /\ task[r].abandoned > 0
        /\ store[r].status = "failed"
        /\ store[r].error = Str(<<"tool timeout after ", "1", ".", "0s">>)

C10_WitnessContinue ==
    \E r \in Runs : \E i \in ToolTimeouts(r) :
        /\ i + 1 < Len(Events(r)) /\ Events(r)[i + 1].a = "continue"
        /\ Events(r)[i + 2].e = "dispatch"
        /\ task[r].abandoned > 0

\* C11: execute_plan waits for no step of the plan: as long as it has not
\* returned it can return, whatever the run's thread is doing; once it has
\* returned, get(run id) gives the run's record, with status running or
\* terminal, and no record ever leaves the store.
C11_NonBlocking ==
    /\ [](\A r \in DOMAIN hist :
            /\ ~hist[r].returned => ENABLED ExecuteReturn(r)
            /\ hist[r].returned =>
                    /\ get(store, r) # Null
                    /\ get(store, r).status \in {"running"} \cup Terminal)
    /\ [][\A r \in RunIds : get(store, r) # Null => get(store', r) # Null]_vars

\* execute_plan has returned while the first tool call is still running
C11_Witness ==
    \E r \in Runs :
        /\ hist[r].returned /\ task[r].pc = "exec"
        /\ Top(task[r]).pc = "call" /\ Len(store[r].steps) = 0
        /\ store[r].status = "running"

\* a tool step of r has just returned from its call: its entry is the last of the log
ToolStepDone(r) ==
    /\ task[r].pc = "exec" /\ Top(task[r]).pc = "ret"
    /\ Len(store[r].steps) > 0
    /\ LET e == store[r].steps[Len(store[r].steps)]
       IN e.kind = "tool" /\ e.started_ts # Null
             /\ Get(e.result, "path") = Str(CurPath(task[r]))

\* C12: after a tool step has called tool n and got r, save[n] = r and
\* save[a] = r for its alias a; every saved result r under a key k is read
\* back field by field: "$k.f" resolves to r.f, as long as save[k] is r.
C12_SaveByNameAndAlias ==
    \A r \in Runs :
        LET st == store[r] IN
        /\ ToolStepDone(r) =>
                LET step == CurStep(task[r])
                    a == Get(step, "save_as")
                    res == task[r].ret.result
                IN /\ Get(st.save, KeyOf(Strip(Get(step, "name").v))) = res
                   /\ (IsStr(a) /\ Strip(a.v) # <<>>) => Get(st.save, KeyOf(Strip(a.v))) = res
        /\ \A k \in DOMAIN st.save.v :
                IsDict(st.save.v[k]) =>
                    \A f \in DOMAIN st.save.v[k].v :
                        resolve_value(Ref(k, f), StateOf(st)) = st.save.v[k].v[f]

\* the entries of r's log that record the latest successful set of their variable
LatestSets(r) ==
    LET log == store[r].steps IN
    {i \in 1..Len(log) :
        /\ log[i].kind = "set" /\ log[i].ok = TRUE
        /\ \A j \in (i + 1)..Len(log) :
                ~(log[j].kind = "set" /\ log[j].ok = TRUE /\ log[j].name = log[i].name)}

\* C13: after a successful set step {var: x, value: v}, "$vars.x" resolves to
\* v when v is a literal and to what v resolved to at the set when v is a
\* reference, for every non-empty name x, until a later set overwrites x.
C13_SetThenResolve ==
    \A r \in Runs : \A i \in LatestSets(r) :
        LET e == store[r].steps[i]
            step == StepAt(store[r].plan, Get(e.result, "path").v)
            v == Get(step, "value")
            stored == Get(e.args, "value")
        IN /\ ~(IsStr(v) /\ v.v # <<>> /\ Head(v.v) = "$") => stored = v
           /\ resolve_value(Str(<<"$", "vars", ".">> \o e.name.v), StateOf(store[r])) = stored

\* the events that record an if step choosing its branch
Branches(r) == {i \in 1..Len(Events(r)) : Events(r)[i].e = "branch"}

\* the event that records the return of the if step of event i, 0 if none yet
IfEnd(r, i) ==
    LET later == {j \in (i + 1)..Len(Events(r)) :
                    Events(r)[j].e = "if_ret" /\ Events(r)[j].path = Events(r)[i].path}
    IN IF later = {} THEN 0 ELSE CHOOSE j \in later : \A k \in later : j <= k

\* the events a step of the run's thread has just added
NewEvents(r) == SubSeq(hist[r].events', Len(hist[r].events) + 1, Len(hist[r].events'))

\* C14: an if step runs the list of then when its condition evaluates to
\* true and the list of else otherwise; its log entry records the choice; until
\* it returns, every step dispatched belongs to the chosen branch, and when the
\* branch succeeds each of its steps was dispatched once, in order; the if step
\* returns ok exactly when the branch list returned ok.
C14_IfTakesOneBranch ==
    /\ [](\A r \in Runs : \A i \in Branches(r) :
            LET ev == Events(r)[i]
                step == StepAt(store[r].plan, ev.path)
                bp == ev.path \o <<".", ev.a>>
                branch == PyOr(Get(step, ev.a), EmptyList).v
                entry == store[r].steps[ev.n + 1]
                j == IfEnd(r, i)
                hi == IF j = 0 THEN Len(Events(r)) ELSE j - 1
            IN /\ entry.kind = "if" /\ entry.ok = TRUE
               /\ Get(entry.result, "if") = Bool(ev.a = "then")
               /\ Get(entry.args, "take_then") = Bool(ev.a = "then")
               /\ \A k \in (i + 1)..hi : IsPrefix(bp, Events(r)[k].path)
               /\ (j # 0 /\ Events(r)[j].a = "ok")
                    => DirectDispatches(r, bp, i + 1, j)
                         = [k \in 1..Len(branch) |-> StepPath(bp, k - 1)])
    /\ [][\A r \in Runs : \A k \in 1..Len(NewEvents(r)) :
            LET ev == NewEvents(r)[k] IN
            /\ ev.e = "branch" =>
                    ev.a = (IF eval_cond(Get(CurStep(task[r]), "cond"), StateOf(store[r]))
                            THEN "then" ELSE "else")
            /\ ev.e = "if_ret" =>
                    /\ task'[r].ret.ok = task[r].ret.ok
                    /\ ev.a = (IF task[r].ret.ok THEN "ok" ELSE "failed")]_vars

\* an if step has taken its else branch, run its steps and returned ok
C14_Witness ==
    \E r \in Runs : \E i \in Branches(r) :
        /\ Events(r)[i].a = "else"
        /\ IfEnd(r, i) # 0 /\ Events(r)[IfEnd(r, i)].a = "ok"
        /\ DirectDispatches(r, Events(r)[i].path \o <<".", "else">>, i + 1, IfEnd(r, i)) # <<>>

\* C15: eval_cond gives false for every malformed condition, in every state
\* of a run: no map, no op, an op that is no string or unknown, a not without
\* a map child, an and/or whose children are no maps; an if step with such a
\* condition takes its else branch.
C15_MalformedCondIsFalse ==
    \A r \in Runs :
        /\ \A i \in 1..Len(MalformedConds) :
                ~eval_cond(MalformedConds[i], StateOf(store[r]))
        /\ \A i \in Branches(r) :
                (\E k \in 1..Len(MalformedConds) :
                    Get(StepAt(store[r].plan, Events(r)[i].path), "cond") = MalformedConds[k])
                => Events(r)[i].a = "else"

\* C16: what to_dict returned stays as the caller saw it: no later operation
\* on the run (a set or tool step, a log entry, cancel, finish) changes any
\* part of an earlier snapshot.
C16_SnapshotIsFrozen ==
    \A r \in Runs : \A i \in 1..Len(hist[r].snaps) :
        Deep(hist[r].snaps[i].dict, store[r].vars, DerefDepth) = hist[r].snaps[i].seen

\* C17: a Cancel of a run that an earlier Cancel has already cancelled returns
\* what the first returned (the run is still known) and leaves the run's
\* record as it finds it, whatever the run's thread did in between.
C17_CancelIdempotent ==
    [][\A r \in RunIds :
        (r \in DOMAIN store /\ store[r].cancelled /\ Cancel(r))
            => (r \in DOMAIN store' /\ store'[r] = store[r])]_vars

\* C18: finish stores done, failed or cancelled as given and failed for any
\* other status, so a run's status is always running, done, failed or
\* cancelled; finish of an unknown run id returns false and changes no record.
C18_FinishClamps ==
    /\ [](/\ \A r \in Runs : store[r].status \in {"running", "done", "failed", "cancelled"}
          /\ \A r \in (RunIds \cup UnknownIds) \ Runs :
                \A status \in FinishStatuses, error \in FinishErrors :
                    StoreFinish(store, r, status, error) = [runs |-> store, ret |-> FALSE])
    /\ [][\A r \in Runs, status \in FinishStatuses, error \in FinishErrors :
            Finish(r, status, error) =>
                /\ StoreFinish(store, r, status, error).ret
                /\ store'[r].status =
                        (IF status \in {"done", "failed", "cancelled"} THEN status ELSE "failed")
                /\ store'[r].error = error
                /\ \A q \in Runs \ {r} : store'[q] = store[q]]_vars

\* finish was given a status that is no terminal status and stored failed
C18_Witness ==
    \E r \in Runs :
        /\ hist[r].fin = <<"paused">> /\ store[r].status = "failed"
        /\ store[r].error = S("oops")

\* a step with a structural error: no map, a tool step without a name or with
\* args that are no map, a set step without var, an if or wait step without
\* cond or with a branch, tick or refresh that is no list, an unknown type
Malformed(step) ==
    \/ ~IsDict(step)
    \/ LET ty == Lower(Strip(PyOr(Get(step, "type"), S("")).v))
           blank(x) == ~IsStr(x) \/ Strip(x.v) = <<>> \/ Strip(x.v) = <<"">>
           nolist(k) == ~IsList(PyOr(Get(step, k), EmptyList))
       IN CASE ty = <<"tool">> ->
                    blank(Get(step, "name")) \/ ~IsDict(PyOr(Get(step, "args"), EmptyMap))
            [] ty = <<"set">> -> blank(Get(step, "var"))
            [] ty = <<"if">> -> ~IsDict(Get(step, "cond")) \/ nolist("then") \/ nolist("else")
            [] ty = <<"wait">> ->
                    ~IsDict(Get(step, "cond")) \/ nolist("tick") \/ nolist("refresh")
            [] OTHER -> TRUE

\* the events at which the executor came to a malformed step
StructuralErrors(r) ==
    {i \in 1..Len(Events(r)) :
        /\ \/ Events(r)[i].e = "dispatch"
           \/ Events(r)[i].e = "abort" /\ Events(r)[i].a = "invalid"
        /\ Malformed(StepAt(store[r].plan, Events(r)[i].path))}

IsSuffix(p, q) == Len(p) <= Len(q) /\ SubSeq(q, Len(q) - Len(p) + 1, Len(q)) = p

\* C19: once the executor has come to a malformed step, whatever its on_fail,
\* no further step is dispatched, and the run (unless cancelled) ends failed
\* with an error that names the path of that step.
C19_StructuralErrorFailsRun ==
    \A r \in Runs : \A i \in StructuralErrors(r) :
        /\ \A k \in (i + 1)..Len(Events(r)) : Events(r)[k].e # "dispatch"
        /\ (Ended(r) /\ ~store[r].cancelled)
                => /\ store[r].status = "failed"
                   /\ IsStr(store[r].error)
                   /\ IsSuffix(Events(r)[i].path, store[r].error.v)

\* the policy of r's plan, and a limit it gives (the executor's when it gives none)
PolicyOf(r) == PyOr(Get(PyOr(store[r].plan, EmptyMap), "policy"), EmptyMap)

PolicyValue(r, key, default) ==
    IF key \in DOMAIN PolicyOf(r).v THEN PyNumber(PolicyOf(r).v[key]).n ELSE default

\* e is the smaller of p and c
IsMinOf(e, p, c) == e <= p /\ e <= c /\ e \in {p, c}

\* C20: while a run executes its steps, its max_steps and per_step_timeout are
\* each the minimum of the plan's policy value (the executor's value when the
\* policy gives none) and the executor's value, so neither exceeds the
\* executor's ceiling.
C20_PolicyOnlyTightens ==
    \A r \in DOMAIN task : task[r].pc = "exec" =>
        /\ IsMinOf(task[r].max_steps,
                   PolicyValue(r, "max_steps", executor.max_steps), executor.max_steps)
        /\ IsMinOf(task[r].per_step_timeout,
                   PolicyValue(r, "per_step_timeout_s", executor.per_step_timeout_s),
                   executor.per_step_timeout_s)
        /\ task[r].max_steps <= executor.max_steps
        /\ task[r].per_step_timeout <= executor.per_step_timeout_s

\* a run whose policy asks for more than both ceilings executes under the ceilings
C20_Witness ==
    \E r \in DOMAIN task :
        /\ task[r].pc = "exec"
        /\ PolicyValue(r, "max_steps", executor.max_steps) > executor.max_steps
        /\ PolicyValue(r, "per_step_timeout_s", executor.per_step_timeout_s)
               > executor.per_step_timeout_s
        /\ task[r].max_steps = executor.max_steps
        /\ task[r].per_step_timeout = executor.per_step_timeout_s

\* a run whose policy gives no max_steps and a tighter per_step_timeout_s
C20_WitnessTighter ==
    \E r \in DOMAIN task :
        /\ task[r].pc = "exec"
        /\ "max_steps" \notin DOMAIN PolicyOf(r).v
        /\ task[r].max_steps = executor.max_steps
        /\ task[r].per_step_timeout < executor.per_step_timeout_s

\* the list a step path lies in and its index there: steps[0].then[2] is step 2
\* of steps[0].then
ListOf(p) == SubSeq(p, 1, Len(p) - 3)
IndexOf(p) == NumeralValue(p[Len(p) - 1])

\* p is the path of a sibling before the step at q, or of a step nested in one
BeforeSibling(p, q) ==
    LET lp == ListOf(q) IN
    /\ Len(p) >= Len(q) /\ SubSeq(p, 1, Len(lp)) = lp
    /\ p[Len(lp) + 1] = "[" /\ NumeralValue(p[Len(lp) + 2]) < IndexOf(q)

\* the events at which a step list begins the step at its index
Begins(r) == {k \in 1..Len(Events(r)) : Events(r)[k].e \in {"dispatch", "abort", "raise"}
                                          /\ Events(r)[k].path # <<>>}

\* the events at which a step is dispatched
Dispatches(r) == {k \in 1..Len(Events(r)) : Events(r)[k].e = "dispatch"}

\* between event k and event m (or log entry x) the list of q was begun anew
Restarted(r, q, k, m, x) ==
    \E y \in Begins(r) :
        /\ k < y /\ y <= m /\ Events(r)[y].n <= x
        /\ Events(r)[y].path = StepPath(ListOf(q), 0)

\* every event and log entry of an earlier sibling (nested steps included)
\* comes before the step at q is begun, within one execution of the list
SiblingsInOrder(r) ==
    \A k \in Dispatches(r) :
        LET q == Events(r)[k].path IN
        /\ \A m \in 1..Len(Events(r)) :
                (m > k /\ Events(r)[m].path # <<>> /\ BeforeSibling(Events(r)[m].path, q))
                    => Restarted(r, q, k, m, Len(store[r].steps))
        /\ \A x \in 1..Len(store[r].steps) :
                LET res == store[r].steps[x].result IN
                (/\ x > Events(r)[k].n
                 /\ IsDict(res) /\ IsStr(Get(res, "path"))
                 /\ BeforeSibling(Get(res, "path").v, q))
                    => Restarted(r, q, k, Len(Events(r)), x - 1)

\* C21: within one run steps execute in document order: for sibling steps
\* i < j of a step list, every log entry, state write and tool invoker call
\* made for step i (its branch, tick, refresh and fallback steps included)
\* comes before the dispatch of step j; after that dispatch the run makes
\* nothing for step i unless the list is executed anew.
C21_SiblingsSequential == \A r \in Runs : SiblingsInOrder(r)

\* a step is dispatched after a tool was invoked and its log entry written in
\* a step nested in an earlier sibling
C21_Witness ==
    \E r \in Runs : \E k \in Dispatches(r) : \E m \in 1..(k - 1) :
        /\ Events(r)[m].e = "invoke"
        /\ Len(Events(r)[m].path) > Len(Events(r)[k].path)
        /\ BeforeSibling(Events(r)[m].path, Events(r)[k].path)
        /\ \E x \in 1..Events(r)[k].n :
                store[r].steps[x].result = Put(store[r].steps[x].result, "path", Str(Events(r)[m].path))

\* the tool invoker calls of r that are executing: the one _call_with_timeout
\* waits for and those it has given up on
CallsInProgress(r) == task[r].abandoned + (IF AtSteps(r, "call") THEN 1 ELSE 0)

\* C22: at most one tool invoker call of a run is in progress at any time,
\* also after an earlier call has timed out.
C22_OneCallAtATime == \A r \in DOMAIN task : CallsInProgress(r) <= 1

\* a log entry as a reader finds it, given the present content of the run's vars
EntrySeen(entry, heap) ==
    [entry EXCEPT !.args = Deep(@, heap, DerefDepth), !.result = Deep(@, heap, DerefDepth)]

\* the log of r keeps its entries: none is removed and each stays at its place
LogKept(r) ==
    /\ Len(store'[r].steps) >= Len(store[r].steps)
    /\ \A k \in 1..Len(store[r].steps) : store'[r].steps[k] = store[r].steps[k]

\* C23: the step log is append-only and monotonically indexed: the entry at
\* position k carries index k, and no step, Cancel or Finish modifies,
\* reorders or removes an entry once appended.
C23_LogAppendOnly ==
    /\ [](\A r \in Runs : \A k \in 1..Len(store[r].steps) : store[r].steps[k].i = k - 1)
    /\ [][\A r \in Runs :
            /\ LogKept(r)
            /\ \A k \in 1..Len(store[r].steps) :
                    EntrySeen(store'[r].steps[k], store'[r].vars)
                        = EntrySeen(store[r].steps[k], store[r].vars)]_vars

\* the part of C23 about the entries the log holds, whatever they refer to
C23_LogKept ==
    /\ [](\A r \in Runs : \A k \in 1..Len(store[r].steps) : store[r].steps[k].i = k - 1)
    /\ [][\A r \in Runs : LogKept(r)]_vars

\* _exec_steps has just been called on the plan's steps and has done nothing yet
StartsExecuting(r) ==
    /\ task[r].pc = "exec" /\ Len(task[r].stack) = 1
    /\ Top(task[r]).idx = 0 /\ Top(task[r]).pc = "top"
    /\ store[r].steps = <<>> /\ Events(r) = <<>>

\* the vars of a run's initial state and of its plan, as maps
InitialVars(r) == PyOr(Get(store[r].initial_state, "vars"), EmptyMap)
PlanVars(r) == PyOr(Get(store[r].plan, "vars"), EmptyMap)

\* C24: when a run starts executing, vars holds every key of
\* initialState.vars with its initialState value, and every key of plan.vars
\* that initialState.vars lacks with its plan value.
C24_InitialStateBeforePlanVars ==
    \A r \in DOMAIN task : StartsExecuting(r) =>
        /\ \A k \in DOMAIN InitialVars(r).v :
                Get(store[r].vars, k) = InitialVars(r).v[k] /\ k \in DOMAIN store[r].vars.v
        /\ IsDict(PlanVars(r)) =>
                \A k \in DOMAIN PlanVars(r).v \ DOMAIN InitialVars(r).v :
                    Get(store[r].vars, k) = PlanVars(r).v[k] /\ k \in DOMAIN store[r].vars.v

\* a run starts with a variable that both give, and with one only the plan gives
C24_Witness ==
    \E r \in DOMAIN task :
        /\ StartsExecuting(r)
        /\ \E k \in DOMAIN InitialVars(r).v \cap DOMAIN PlanVars(r).v :
                InitialVars(r).v[k] # PlanVars(r).v[k] /\ store[r].vars.v[k] = InitialVars(r).v[k]
        /\ \E k \in DOMAIN PlanVars(r).v \ DOMAIN InitialVars(r).v :
                store[r].vars.v[k] = PlanVars(r).v[k]

\* a state with lists and nested maps, beside the states the runs reach
SampleState ==
    [vars |-> Map([l |-> List(<<Num(1), Null>>), s |-> S("text")]),
     save |-> Map([kb |-> Map([found |-> Bool(TRUE),
                               items |-> List(<<Map([label |-> S("cup")])>>)]),
                   n |-> Num(3)]),
     last |-> Map([ok |-> Bool(TRUE)])]

ResolverStates == {StateOf(store[r]) : r \in Runs} \cup {SampleState}

\* references: a first segment and what follows it
RefRoots == {"vars", "last", "kb", "kb_query", "n", "nokey"}
RefTails ==
    {<<>>, <<".">>, <<".", "found">>, <<".", "nope">>, <<".", "found", ".", "deep">>,
     <<".", "items", ".", "0", ".", "label">>, <<".", "items", ".", "1">>,
     <<".", "items", ".", "-1">>, <<".", "items", ".", "label">>,
     <<".", "l", ".", "0">>, <<".", "l", ".", "1">>, <<".", "l", ".", "2">>,
     <<".", "s", ".", "0">>, <<".", "x">>}

\* the value a reference starts from, and whether it has one
RootGiven(root, tail, state) ==
    IF tail # <<>> /\ root \in {"vars", "last"} THEN TRUE ELSE root \in DOMAIN state.save.v

RootValue(root, tail, state) ==
    IF tail # <<>> /\ root = "vars" THEN state.vars
    ELSE IF tail # <<>> /\ root = "last" THEN state.last
    ELSE state.save.v[root]

\* is every segment of parts there: a key of a map, an index of a list
RECURSIVE Present(_, _)
Present(cur, parts) ==
    IF parts = <<>> THEN TRUE
    ELSE IF IsDict(cur) THEN Head(parts) \in DOMAIN cur.v /\ Present(cur.v[Head(parts)], Tail(parts))
    ELSE IF IsList(cur) THEN
        /\ IsNumeral(Head(parts)) /\ NumeralValue(Head(parts)) < Len(cur.v)
        /\ Present(cur.v[NumeralValue(Head(parts)) + 1], Tail(parts))
    ELSE FALSE

\* a reference with something missing: its saved key, or a segment of its path
MissingRef(root, tail, state) ==
    \/ ~RootGiven(root, tail, state)
    \/ RootGiven(root, tail, state) /\ ~Present(RootValue(root, tail, state), PathParts(tail))

\* values that are no references, and argument containers
LiteralSamples == {Null, Bool(TRUE), Num(5), S("plain"), Str(<<"a", "$", "b">>), Str(<<>>)}
ArgSamples ==
    {Map([a |-> Ref("kb", "found"), b |-> List(<<Ref("nokey", "x"), Num(1), S("plain")>>),
          c |-> Map([d |-> Ref("vars", "s")])]),
     List(<<Ref("vars", "x"), Map([e |-> Ref("last", "ok")]), Null>>)}

\* resolve_args keeps the container and resolves what it holds
RECURSIVE ArgsResolved(_, _, _)
ArgsResolved(args, out, state) ==
    IF IsDict(args)
    THEN /\ IsDict(out) /\ DOMAIN out.v = DOMAIN args.v
         /\ \A k \in DOMAIN args.v : ArgsResolved(args.v[k], out.v[k], state)
    ELSE IF IsList(args)
    THEN /\ IsList(out) /\ Len(out.v) = Len(args.v)
         /\ \A i \in 1..Len(args.v) : ArgsResolved(args.v[i], out.v[i], state)
    ELSE out = resolve_value(args, state)

\* a reference with something missing resolves to null
MissingIsNull(tails) ==
    \A state \in ResolverStates, root \in RefRoots, tail \in tails :
        MissingRef(root, tail, state) => resolve_value(Str(<<"$", root>> \o tail), state) = Null

\* what is no reference comes back unchanged, and containers keep their shape
LiteralsAndArgs ==
    \A state \in ResolverStates :
        /\ \A v \in LiteralSamples : resolve_value(v, state) = v
        /\ \A args \in ArgSamples : ArgsResolved(args, resolve_args(args, state), state)

\* C25: a "$" reference whose saved key, variable, map key or list index is
\* missing, or whose path walks through a value that is neither map nor
\* list, resolves to null; a value that is no "$"-prefixed string is
\* returned unchanged; resolve_args does so for every nested value and keeps
\* the container's keys and order.
C25_MissingResolvesToNull == MissingIsNull(RefTails) /\ LiteralsAndArgs

\* C25 for the references that name a key or an index after every dot and no
\* index below zero
C25_PlainRefs ==
    MissingIsNull(RefTails \ {<<".">>, <<".", "items", ".", "-1">>}) /\ LiteralsAndArgs

ToolNames == {"kb_query", "say", "notify", "drive"}

HasBoolOk(x) == IsDict(x) /\ "ok" \in DOMAIN x.v /\ x.v["ok"].t = "bool"

\* what _call_with_timeout makes of each thing the invoker can do
Normalized ==
    \A name \in ToolNames : \A i \in 1..Len(ToolBehaviours(name)) :
        LET b == ToolBehaviours(name)[i]
            out == worker(b)
        IN /\ b.kind = "raise" => out = Map([ok |-> Bool(FALSE), error |-> b.value])
           /\ (b.kind = "return" /\ ~IsDict(b.value))
                => HasBoolOk(out) /\ out.v["ok"] = Bool(FALSE)
           /\ (b.kind = "return" /\ IsDict(b.value) /\ "ok" \notin DOMAIN b.value.v)
                => IF "error" \in DOMAIN b.value.v
                   THEN out = Map([ok |-> Bool(FALSE), error |-> b.value.v["error"]])
                   ELSE /\ HasBoolOk(out) /\ out.v["ok"] = Bool(TRUE)
                        /\ \A k \in DOMAIN b.value.v : out.v[k] = b.value.v[k]

\* the log entries written after the invoker was called
InvokedEntries(r) ==
    {k \in 1..Len(store[r].steps) :
        store[r].steps[k].kind = "tool" /\ store[r].steps[k].started_ts # Null}

\* C26: every tool result stored in save, last or the step log after the tool
\* was invoked is a map with a boolean ok; an exception becomes
\* {ok: false, error}, a non-map a failure, a map with error and no ok
\* {ok: false, error}, a map with neither {ok: true} plus its fields.
C26_ToolResultHasBoolOk ==
    /\ Normalized
    /\ \A r \in Runs :
        /\ \A k \in InvokedEntries(r) : HasBoolOk(store[r].steps[k].result)
        /\ \A k \in DOMAIN store[r].save.v : HasBoolOk(store[r].save.v[k])
        /\ (InvokedEntries(r) # {} /\ Len(store[r].steps) \in InvokedEntries(r))
                => HasBoolOk(store[r].last)

\* the fallback lists that returned failure
FailedFallbacks(r) ==
    {j \in 1..Len(Events(r)) : Events(r)[j].e = "fb" /\ Events(r)[j].a = "failed"}

\* C27: when a step fails under onFail continue and its fallback list fails,
\* the enclosing step list returns failure: the next sibling of the step is
\* not dispatched and the run (unless cancelled) ends with status failed.
C27_FallbackFailureFatal ==
    \A r \in Runs : \A j \in FailedFallbacks(r) :
        /\ \A m \in (j + 1)..Len(Events(r)) :
                Events(r)[m].path # NextSibling(store[r].plan, Events(r)[j].path)
        /\ (Ended(r) /\ ~store[r].cancelled) => store[r].status = "failed"

\* the dispatches of steps that stand in a fallback list
FallbackDispatches(r) ==
    {k \in Dispatches(r) :
        LET lp == ListOf(Events(r)[k].path) IN
        Len(lp) > 2 /\ SubSeq(lp, Len(lp) - 1, Len(lp)) = <<".", "fallback">>}

\* the step that owns the fallback list the step at q stands in
OwnerPath(q) == SubSeq(ListOf(q), 1, Len(ListOf(q)) - 2)

\* the step's onFail is continue, whatever its letter case and the blanks around it
OnFailIsContinue(step) ==
    /\ "on_fail" \in DOMAIN step.v /\ IsStr(step.v["on_fail"])
    /\ Lower(Strip(step.v["on_fail"].v)) = <<"continue">>

\* C28: a step's fallback list is executed only when that step failed and its
\* onFail is continue: a fallback step is dispatched only after its owning
\* step came back failed, with no other end of that fallback in between, and
\* never for an owner whose onFail is stop or any other value.
C28_FallbackOnlyOnContinue ==
    \A r \in Runs : \A k \in FallbackDispatches(r) :
        LET p == OwnerPath(Events(r)[k].path)
            owner == StepAt(store[r].plan, p)
        IN /\ OnFailIsContinue(owner)
           /\ \E i \in 1..(k - 1) :
                /\ Events(r)[i].e = "fail" /\ Events(r)[i].path = p
                /\ Get(owner, "type") = S("tool") => ~ResultOk(Events(r)[i].v)
                /\ \A m \in (i + 1)..(k - 1) :
                        ~(Events(r)[m].path = p /\ Events(r)[m].e \in {"fb", "fail", "dispatch"})

\* a run in which a fallback ran after a failure under continue, and in which a
\* step with a fallback then succeeded or failed under another onFail value
\* and the run went on or ended without that fallback
C28_Witness ==
    \E r \in Runs :
        /\ Ended(r) /\ FallbackDispatches(r) # {}
        /\ \E k \in Dispatches(r) :
                LET step == StepAt(store[r].plan, Events(r)[k].path) IN
                /\ Truthy(Get(step, "fallback")) /\ ~OnFailIsContinue(step)
                /\ \E i \in (k + 1)..Len(Events(r)) :
                        Events(r)[i].e = "fail" /\ Events(r)[i].path = Events(r)[k].path

\* the step list on top is about to dispatch the sibling after a step that
\* failed under onFail continue: that step had no fallback, or its fallback
\* has just returned success
AfterSoftFailure(r) ==
    /\ AtSteps(r, "go") /\ Top(task[r]).idx > 0 /\ Len(Events(r)) > 0
    /\ LET e == Events(r)[Len(Events(r))] IN
       /\ e.path = StepPath(Top(task[r]).path, Top(task[r]).idx - 1)
       /\ \/ e.e = "fail" /\ e.a = "continue"
          \/ e.e = "fb" /\ e.a = "ok"

\* the result with which the step at p last failed
FailedResult(r, p) ==
    LET is == {i \in 1..Len(Events(r)) : Events(r)[i].e = "fail" /\ Events(r)[i].path = p}
    IN Events(r)[CHOOSE i \in is : \A j \in is : j <= i].v

\* C29: after a step has failed under onFail continue and its fallback (if
\* any) has succeeded, last is the failed step's own result when the next
\* sibling is dispatched, so "$last.error" there gives the original error.
C29_LastIsFailedResult ==
    \A r \in Runs :
        AfterSoftFailure(r) =>
            LET res == FailedResult(r, StepPath(Top(task[r]).path, Top(task[r]).idx - 1)) IN
            /\ store[r].last = res
            /\ resolve_value(Ref("last", "error"), StateOf(store[r])) = Get(res, "error")

\* the fallback's last step left another result than the failed step's
C29_Witness ==
    \E r \in Runs :
        /\ AfterSoftFailure(r) /\ Events(r)[Len(Events(r))].e = "fb"
        /\ Len(store[r].steps) > 1
        /\ store[r].steps[Len(store[r].steps)].kind = "tool"
        /\ store[r].steps[Len(store[r].steps)].ok
        /\ Truthy(Get(store[r].last, "error"))
        /\ CurStep(task[r]) = SetStep("why", Ref("last", "error"))

\* the wait steps that are executing: the wait frames of the stack
WaitFrames(r) ==
    {x \in 1..Len(task[r].stack) : task[r].stack[x].k = "wait"}

TickPath(f) == f.path \o <<".", "tick">>
RefreshPath(f) == f.path \o <<".", "refresh">>
TickSteps(f) == PyOr(Get(f.step, "tick"), EmptyList).v
RefreshSteps(f) == PyOr(Get(f.step, "refresh"), EmptyList).v

\* the log entries of the wait step at path with the given wait value
WaitEntries(r, path, what) ==
    {x \in 1..Len(store[r].steps) :
        /\ store[r].steps[x].kind = "wait"
        /\ store[r].steps[x].result = Map([ok |-> Bool(TRUE), wait |-> S(what), path |-> Str(path)])}

\* the log entries of the steps of the list at lp
ListEntries(r, lp) ==
    {x \in 1..Len(store[r].steps) :
        LET res == store[r].steps[x].result IN
        IsDict(res) /\ IsStr(Get(res, "path")) /\ IsPrefix(lp \o <<"[">>, Get(res, "path").v)}

\* the wait started entry comes before every entry of the wait's tick and refresh steps
StartedFirst(r) ==
    \A x \in WaitFrames(r) :
        LET f == task[r].stack[x] IN
        /\ WaitEntries(r, f.path, "started") # {}
        /\ \A e \in ListEntries(r, TickPath(f)) \cup ListEntries(r, RefreshPath(f)) :
                \E s \in WaitEntries(r, f.path, "started") : s < e

\* the event at which the present iteration of the wait loop began its first list
IterationStart(r, f) ==
    LET first == StepPath(IF TickSteps(f) # <<>> THEN TickPath(f) ELSE RefreshPath(f), 0)
        is == {i \in 1..Len(Events(r)) : Events(r)[i].e = "dispatch" /\ Events(r)[i].path = first}
    IN IF is = {} THEN 0 ELSE CHOOSE i \in is : \A j \in is : j <= i

\* when cond is about to be evaluated, this iteration has dispatched every tick
\* step and then every refresh step, each once and in order
ListsBeforeCond(r) ==
    AtWait(r, "cond") =>
        LET f == Top(task[r])
            s == IterationStart(r, f)
            n == Len(Events(r))
        IN (TickSteps(f) # <<>> \/ RefreshSteps(f) # <<>>) =>
            /\ s > 0
            /\ DirectDispatches(r, TickPath(f), s, n)
                    = [k \in 1..Len(TickSteps(f)) |-> StepPath(TickPath(f), k - 1)]
            /\ DirectDispatches(r, RefreshPath(f), s, n)
                    = [k \in 1..Len(RefreshSteps(f)) |-> StepPath(RefreshPath(f), k - 1)]
            /\ \A a, b \in s..n :
                    (IsPrefix(RefreshPath(f), Events(r)[a].path) /\ IsPrefix(TickPath(f), Events(r)[b].path))
                        => b < a

\* the wait step on top returns failure to the step list that dispatched it
WaitFails(r) ==
    /\ task'[r].pc = "exec" /\ task'[r].stack = ReturnWait(task[r], FALSE, task'[r].ret.result).stack
    /\ ~task'[r].ret.ok

\* the wait step on top calls the list at lp and will resume at pc
WaitCalls(r, steps, lp, pc) ==
    /\ task'[r].stack = CallSteps([task[r] EXCEPT !.stack =
                                    SetTop(@, [Top(task[r]) EXCEPT !.pc = pc])], steps, lp).stack
    /\ store'[r] = store[r]

\* the wait step on top goes on to pc without running anything
WaitGoes(r, pc) ==
    task'[r].stack = SetTop(task[r].stack, [Top(task[r]) EXCEPT !.pc = pc])

\* after the tick list: all refresh steps if there are any, then cond
ThenRefresh(r) ==
    LET f == Top(task[r]) IN
    IF RefreshSteps(f) # <<>> THEN WaitCalls(r, RefreshSteps(f), RefreshPath(f), "refresh")
    ELSE WaitGoes(r, "cond") /\ store'[r] = store[r]

\* one step of the thread of r while a wait step is on top of its stack
WaitOrder(r) ==
    LET f == Top(task[r])
        st == store[r]
    IN (r \in DOMAIN task /\ task[r].pc = "exec" /\ f.k = "wait" /\ task'[r].stack # task[r].stack) =>
        CASE f.pc = "loop" /\ (now - f.started) < f.timeout_s ->
                IF Cancelled(st)
                THEN WaitFails(r) /\ task'[r].ret.result = Map([ok |-> Bool(FALSE), error |-> S("cancelled")])
                ELSE IF Len(st.steps) >= task[r].max_steps
                THEN WaitFails(r) /\ Len(store'[r].steps) = Len(st.steps) + 1
                ELSE IF TickSteps(f) # <<>> THEN WaitCalls(r, TickSteps(f), TickPath(f), "tick")
                ELSE ThenRefresh(r)
          [] f.pc = "tick" ->
                IF task[r].ret.ok THEN ThenRefresh(r)
                ELSE WaitFails(r) /\ store'[r] = st
          [] f.pc = "refresh" ->
                IF task[r].ret.ok THEN WaitGoes(r, "cond") /\ store'[r] = st
                ELSE WaitFails(r) /\ store'[r] = st
          [] f.pc = "cond" /\ eval_cond(Get(f.step, "cond"), StateOf(st)) ->
                LET res == Map([ok |-> Bool(TRUE), wait |-> S("satisfied")]) IN
                /\ task'[r].stack = ReturnWait(task[r], TRUE, res).stack
                /\ task'[r].ret = [ok |-> TRUE, result |-> res]
                /\ store'[r].last = res
                /\ Len(store'[r].steps) = Len(st.steps) + 1
                /\ store'[r].steps[Len(st.steps) + 1].kind = "wait"
                /\ store'[r].steps[Len(st.steps) + 1].ok
                /\ store'[r].steps[Len(st.steps) + 1].result = Put(res, "path", Str(f.path))
                /\ now' = now
          [] f.pc = "cond" /\ ~eval_cond(Get(f.step, "cond"), StateOf(st)) ->
                \/ WaitGoes(r, "loop") /\ store'[r] = st /\ now' = now + f.poll_s
                \/ task'[r].pc = "dead"
          [] OTHER -> TRUE

\* C30: a wait step first appends a "wait started" entry; every iteration of
\* its loop checks cancellation, then the step budget, then runs all tick
\* steps, then all refresh steps, then evaluates cond once; when cond holds
\* the wait logs wait = "satisfied" and returns success at once, without
\* sleeping or another tick or refresh; when the tick or the refresh list
\* fails the wait fails without evaluating cond.
C30_WaitLoopOrder ==
    /\ [](\A r \in Runs : r \in DOMAIN task /\ task[r].pc = "exec"
                => StartedFirst(r) /\ ListsBeforeCond(r))
    /\ [][\A r \in DOMAIN task : WaitOrder(r)]_vars

\* a wait with tick and refresh steps has been satisfied in its second iteration
C30_Witness ==
    \E r \in Runs :
        /\ AtSteps(r, "ret") /\ task[r].ret.ok
        /\ task[r].ret.result = Map([ok |-> Bool(TRUE), wait |-> S("satisfied")])
        /\ Cardinality(WaitEntries(r, CurPath(task[r]), "started")) = 1
        /\ Cardinality(ListEntries(r, CurPath(task[r]) \o <<".", "tick">>)) = 4
        /\ Cardinality(ListEntries(r, CurPath(task[r]) \o <<".", "refresh">>)) = 2

\* the step is a tool step
IsToolStep(step) ==
    IsDict(step) /\ IsStr(Get(step, "type")) /\ Lower(Strip(Get(step, "type").v)) = <<"tool">>

\* a tool step the invoker must not be called for: no name, a name outside the
\* allow-list, or args that is no map
Unfit(step, allow_tools) ==
    LET name == Get(step, "name") IN
    \/ ~IsStr(name)
    \/ Strip(name.v) = <<>>
    \/ allow_tools.given /\ KeyOf(Strip(name.v)) \notin allow_tools.names
    \/ "args" \in DOMAIN step.v /\ step.v["args"] # Null /\ ~IsDict(step.v["args"])

\* the dispatches of tool steps that are unfit
UnfitDispatches(r) ==
    {k \in Dispatches(r) :
        LET step == StepAt(store[r].plan, Events(r)[k].path) IN
        IsToolStep(step) /\ Unfit(step, executor.allow_tools)}

\* C31: the tool invoker is never called with a name outside the allow-list,
\* nor for a tool step with an empty name or args that is no map: such a
\* step gets a synthesized {ok: false} result, logged as a failed tool step
\* and returned as a failure for onFail to handle, and save is left as it was.
C31_UnfitToolNotInvoked ==
    /\ [](\A r \in Runs :
            /\ \A m \in 1..Len(Events(r)) : Events(r)[m].e = "invoke" =>
                    /\ executor.allow_tools.given => Events(r)[m].a \in executor.allow_tools.names
                    /\ ~Unfit(StepAt(store[r].plan, Events(r)[m].path), executor.allow_tools)
            /\ \A k \in UnfitDispatches(r) :
                    LET entry == store[r].steps[Events(r)[k].n + 1] IN
                    /\ Len(store[r].steps) > Events(r)[k].n
                    /\ entry.kind = "tool" /\ ~entry.ok
                    /\ IsDict(entry.result) /\ Get(entry.result, "ok") = Bool(FALSE)
                    /\ Get(entry.result, "path") = Str(Events(r)[k].path))
    /\ [][\A r \in Runs :
            (Len(Events(r)') > Len(Events(r)) /\ Len(Events(r)) + 1 \in UnfitDispatches(r)')
                => /\ store'[r].save = store[r].save
                   /\ task'[r].pc = "exec" /\ Top(task'[r]).pc = "ret" /\ ~task'[r].ret.ok]_vars

\* the events at which a tool call came back: with what the invoker did, or
\* with a timeout
CallEnds(r) == {m \in 1..Len(Events(r)) : Events(r)[m].e \in {"result", "timeout"}}

\* x is a map whose ok is false
OkIsFalse(x) == IsDict(x) /\ "ok" \in DOMAIN x.v /\ x.v["ok"] = Bool(FALSE)

\* the step whose call ended at event m is logged as ok exactly when failed
\* is false, and is handled by onFail exactly when failed is true
TreatedAs(r, m, failed) ==
    LET entry == store[r].steps[Events(r)[m].n + 1] IN
    /\ entry.kind = "tool" /\ entry.ok = ~failed
    /\ m < Len(Events(r))
            => ((Events(r)[m + 1].e = "fail" /\ Events(r)[m + 1].path = Events(r)[m].path) <=> failed)

\* C32 as stated: a tool step is treated as failed exactly when the result the
\* invoker gave is a map whose ok is false; a result without ok, whatever
\* else it holds, counts as success.
C32_FailedIffOkFalse ==
    \A r \in Runs : \A m \in CallEnds(r) :
        (Events(r)[m].e = "result" /\ Events(r)[m].a = "return")
            => TreatedAs(r, m, OkIsFalse(Events(r)[m].v))

\* C32: a tool step is treated as failed exactly when the result that
\* _call_with_timeout returns for it is a map whose ok is false: then it is
\* logged with ok false and handled by onFail; with any other result (ok
\* true, ok holding another value than false) it is logged with ok true and
\* onFail is not applied.  A result the invoker gave without ok is failed or
\* not as its normalization says.
C32_FailedIffNormalizedOkFalse ==
    \A r \in Runs : \A m \in CallEnds(r) :
        /\ TreatedAs(r, m, OkIsFalse(store[r].steps[Events(r)[m].n + 1].result))
        /\ (Events(r)[m].e = "result" /\ Events(r)[m].a = "return" /\ IsDict(Events(r)[m].v)
                /\ "ok" \notin DOMAIN Events(r)[m].v.v)
              => TreatedAs(r, m, "error" \in DOMAIN Events(r)[m].v.v)
        /\ (Events(r)[m].e = "result" /\ ~IsDict(Events(r)[m].v)) => TreatedAs(r, m, TRUE)
        /\ Events(r)[m].e = "timeout" => TreatedAs(r, m, TRUE)

\* a run has ended done after a tool result whose ok is neither true nor false
C32_Witness ==
    \E r \in Runs : \E m \in CallEnds(r) :
        /\ Events(r)[m].e = "result" /\ IsDict(Events(r)[m].v)
        /\ Get(Events(r)[m].v, "ok") = S("yes")
        /\ store[r].steps[Events(r)[m].n + 1].ok
        /\ Ended(r) /\ store[r].status = "done"

\* the run task of r called _exec_steps on the plan's steps, which returned
StepsReturned(r) ==
    Ended(r) /\ IsList(PyOr(Get(PyOr(store[r].plan, EmptyMap), "steps"), EmptyList))

\* C33: when the run task ends a run that was not cancelled, the outcome that
\* finish records matches what the step runner returned: failed with an error
\* when the plan's step list returned false, done without an error when it
\* returned true; a run never ends done with an error or failed without one.
C33_OutcomeMatchesRunner ==
    \A r \in Runs :
        (Ended(r) /\ ~store[r].cancelled) =>
            /\ store[r].status \in {"done", "failed"}
            /\ store[r].status = "done" => store[r].error = Null
            /\ store[r].status = "failed" => IsStr(store[r].error) /\ store[r].error.v # <<>>
            /\ StepsReturned(r) => (store[r].status = "done" <=> task[r].ret.ok)
            /\ store[r].finished_ts # Null

\* a run has ended done although one of its steps failed with stop and left an
\* error in the run, and the error is gone
C33_Witness ==
    \E r \in Runs :
        /\ Ended(r) /\ ~store[r].cancelled /\ StepsReturned(r)
        /\ store[r].status = "done" /\ store[r].error = Null
        /\ StopFailures(r) # {}

\* the operands of the sampled comparisons: literals and references
CondOperands ==
    {Num(1), Num(5), Bool(TRUE), S("text"), Ref("vars", "x"), Ref("kb_query", "found"),
     Ref("vars", "nope")}

ExistsCond(value) == Map([op |-> S("exists"), value |-> value])
NotCond(c) == Map([op |-> S("not"), cond |-> c])
AndCond(cs) == Map([op |-> S("and"), conds |-> List(cs)])
OrCond(cs) == Map([op |-> S("or"), conds |-> List(cs)])

\* the conditions without children
EqualityLeaves ==
    {CmpCond(op, a, b) : op \in {"==", "!="}, a \in CondOperands, b \in CondOperands}
        \cup {ExistsCond(a) : a \in CondOperands}

\* the leaves the sampled trees are built from
TreeLeaves ==
    {CmpCond("==", Ref("vars", "x"), Num(5)), CmpCond("==", Ref("kb_query", "found"), Bool(TRUE)),
     ExistsCond(Ref("vars", "nope")), CmpCond("!=", S("text"), Num(1))}

\* the lists of at most two leaves
LeafLists == {<<>>} \cup {<<a>> : a \in TreeLeaves} \cup {<<a, b>> : a \in TreeLeaves, b \in TreeLeaves}

\* well-formed condition trees of depth one to three
CondTrees ==
    EqualityLeaves
        \cup {NotCond(a) : a \in TreeLeaves}
        \cup {AndCond(cs) : cs \in LeafLists} \cup {OrCond(cs) : cs \in LeafLists}
        \cup {NotCond(AndCond(<<a, b>>)) : a \in TreeLeaves, b \in TreeLeaves}
        \cup {AndCond(<<OrCond(<<a, b>>), NotCond(c)>>) :
                    a \in TreeLeaves, b \in TreeLeaves, c \in TreeLeaves}

\* two values are the same value: the same kind and the same content
SameValue(a, b) == a.t = b.t /\ a.v = b.v

\* two values are equal as == of the implementation has it: as SameValue,
\* but a boolean equals the number 1 or 0
EqualWithBoolAsNumber(a, b) ==
    IF a.t \in {"num", "bool"} /\ b.t \in {"num", "bool"}
    THEN (IF a.t = "bool" THEN (IF a.v THEN 1 ELSE 0) ELSE a.v)
            = (IF b.t = "bool" THEN (IF b.v THEN 1 ELSE 0) ELSE b.v)
    ELSE SameValue(a, b)

\* the reference semantics of a well-formed condition tree, given the equality of values
RECURSIVE Holds(_, _, _)
Holds(c, state, bool_is_number) ==
    LET op == c.v["op"].v[1] IN
    CASE op = "and" -> \A i \in 1..Len(c.v["conds"].v) : Holds(c.v["conds"].v[i], state, bool_is_number)
      [] op = "or" -> \E i \in 1..Len(c.v["conds"].v) : Holds(c.v["conds"].v[i], state, bool_is_number)
      [] op = "not" -> ~Holds(c.v["cond"], state, bool_is_number)
      [] op = "exists" -> resolve_value(c.v["value"], state) # Null
      [] op \in {"==", "!="} ->
            LET l == resolve_value(c.v["left"], state)
                r == resolve_value(c.v["right"], state)
                eq == IF bool_is_number THEN EqualWithBoolAsNumber(l, r) ELSE SameValue(l, r)
            IN IF op = "==" THEN eq ELSE ~eq

\* the run states the conditions are evaluated in
CondStates == {StateOf(store[r]) : r \in Runs}

\* C34: for every well-formed condition tree and every run state, eval_cond
\* agrees with the reference semantics: and holds iff every child holds, or
\* iff some child holds, not negates its child, exists holds iff its value
\* resolves to non-null, == and != compare the resolved values for equality.
C34_EvalAgreesWithReference ==
    \A state \in CondStates : \A c \in CondTrees :
        eval_cond(c, state) = Holds(c, state, FALSE)

\* C34 with the equality of the implementation, in which true equals 1
C34_EvalAgreesUpToBoolAsNumber ==
    \A state \in CondStates : \A c \in CondTrees :
        eval_cond(c, state) = Holds(c, state, TRUE)

\* the operands of the sampled ordering comparisons
OrderOperands ==
    {Num(5), Null, Bool(TRUE), S("3"), S("text"), List(<<Num(1)>>),
     Ref("vars", "x"), Ref("vars", "nope")}

OrderOps == {">", ">=", "<", "<="}

\* the run states the ordering comparisons are evaluated in: those of ended runs
OrderStates == {StateOf(store[r]) : r \in {q \in Runs : Ended(q)}}

\* the numeric comparison op of two integers
NumericCompare(op, a, b) ==
    CASE op = ">" -> a > b
      [] op = ">=" -> a >= b
      [] op = "<" -> a < b
      [] op = "<=" -> a <= b

\* the number float() makes of a value, where it makes one: a number is
\* itself, a boolean 1 or 0, a string the number it spells
Converts(x) == x.t \in {"num", "bool"} \/ (x.t = "str" /\ Len(x.v) = 1 /\ IsNumeral(x.v[1]))
Converted(x) ==
    CASE x.t = "num" -> x.v
      [] x.t = "bool" -> IF x.v THEN 1 ELSE 0
      [] x.t = "str" -> NumeralValue(x.v[1])

\* C35 as stated: an ordering comparison is false when either side resolves
\* to null or to a value that is no number, and is the numeric comparison of
\* the two resolved values otherwise.
C35_OrderingFalseUnlessNumbers ==
    \A state \in OrderStates : \A op \in OrderOps : \A a \in OrderOperands : \A b \in OrderOperands :
        LET l == resolve_value(a, state)
            r == resolve_value(b, state)
        IN eval_cond(CmpCond(op, a, b), state)
                = (l.t = "num" /\ r.t = "num" /\ NumericCompare(op, l.v, r.v))

\* C35: an ordering comparison is false, and nothing is raised, when either
\* side resolves to null or to a value that float() does not convert (a
\* string that spells no number, a list, a map); so x < c and x >= c are
\* both false while x is missing; otherwise it is the numeric comparison of
\* the two converted values, a boolean counting as 1 or 0 and a string as
\* the number it spells.
C35_OrderingFalseUnlessConvertible ==
    \A state \in OrderStates : \A op \in OrderOps : \A a \in OrderOperands : \A b \in OrderOperands :
        LET l == resolve_value(a, state)
            r == resolve_value(b, state)
        IN /\ eval_cond(CmpCond(op, a, b), state)
                = (Converts(l) /\ Converts(r) /\ NumericCompare(op, Converted(l), Converted(r)))
           /\ (l = Null \/ r = Null) => ~eval_cond(CmpCond(op, a, b), state)

\* a run in which x has a value and another reference is missing: x < 6 holds
\* while nope < 6 and nope >= 6 are both false
C35_Witness ==
    \E r \in Runs :
        LET state == StateOf(store[r]) IN
        /\ resolve_value(Ref("vars", "x"), state) = Num(5)
        /\ eval_cond(CmpCond("<", Ref("vars", "x"), Num(6)), state)
        /\ resolve_value(Ref("vars", "nope"), state) = Null
        /\ ~eval_cond(CmpCond("<", Ref("vars", "nope"), Num(6)), state)
        /\ ~eval_cond(CmpCond(">=", Ref("vars", "nope"), Num(6)), state)
        /\ Ended(r)

\* what a call of cancel(run_id) may change in the store
CancelFrame(runs, run_id) ==
    LET out == StoreCancel(runs, run_id) IN
    IF run_id \notin DOMAIN runs THEN out.ret = FALSE /\ out.runs = runs
    ELSE LET old == runs[run_id]
             new == out.runs[run_id]
         IN /\ out.ret = TRUE
            /\ DOMAIN out.runs = DOMAIN runs
            /\ \A q \in DOMAIN runs \ {run_id} : out.runs[q] = runs[q]
            /\ new.cancelled = TRUE
            /\ new.vars = old.vars /\ new.save = old.save /\ new.last = old.last
            /\ new.steps = old.steps /\ new.error = old.error /\ new.plan = old.plan
            /\ new.initial_state = old.initial_state /\ new.created_ts = old.created_ts
            /\ IF old.status = "running"
               THEN new.status = "cancelled" /\ new.finished_ts = Num(now)
               ELSE new.status = old.status /\ new.finished_ts = old.finished_ts

\* C36: Cancel changes nothing but cancelled, and status and finishedTs when
\* the status was running; it never changes vars, save, last, steps, error
\* or plan; on a run whose status is terminal it changes only cancelled and
\* returns true; on an unknown run id it returns false and changes no record.
C36_CancelFrame ==
    /\ [](\A r \in RunIds \cup UnknownIds : CancelFrame(store, r))
    /\ [][\A r \in RunIds : Cancel(r) => store' = StoreCancel(store, r).runs]_vars

\* a run that had ended done has been cancelled: only cancelled has changed
C36_Witness ==
    \E r \in Runs :
        /\ store[r].cancelled /\ store[r].status = "done" /\ Ended(r)
        /\ store[r].error = Null /\ Len(store[r].steps) > 0
        /\ hist[r].cancelLen = -1

\* C37: while a run whose max_steps is not negative executes, and after it
\* has ended, its step log holds at most max_steps + 1 entries.
C37_LogWithinBudget ==
    \A r \in Runs :
        (task[r].pc \in {"exec", "after", "ended"} /\ task[r].max_steps >= 0)
            => Len(store[r].steps) <= task[r].max_steps + 1

\* C38: in every state of a run that another thread can observe, finished_ts
\* is set exactly when the status is done, failed or cancelled.
C38_FinishedIffTerminal ==
    \A r \in Runs :
        (store[r].finished_ts # Null) <=> (store[r].status \in {"done", "failed", "cancelled"})

\* a run that was cancelled before its task started: the start has made it
\* running again and has cleared finished_ts with it
C38_Witness ==
    \E r \in Runs :
        /\ store[r].cancelled /\ task[r].pc = "setup"
        /\ store[r].status = "running" /\ store[r].finished_ts = Null

\* C40: after a tool call has timed out, the result of the abandoned worker
\* is discarded: the step of the worker ending leaves save, last, the step
\* log and every other field of the run as they are, and the log entry of the
\* timed-out step records the timeout whether the worker has ended or not.
C40_LateResultDiscarded ==
    /\ [](\A r \in Runs : \A w \in 1..Len(hist[r].workers) :
            LET ev == Events(r)[hist[r].workers[w].from]
                entry == store[r].steps[ev.n + 1]
            IN /\ ev.e = "timeout" /\ ev.path = hist[r].workers[w].path
               /\ entry.ok = FALSE
               /\ entry.result =
                     Put(ToolTimeoutResult(task[r].per_step_timeout), "path", Str(ev.path)))
    /\ [][\A r \in Runs : LateWorker(r) => store' = store]_vars

\* a worker has ended after later steps of its run were executed, and the run
\* has ended
C40_Witness ==
    \E r \in Runs : \E w \in 1..Len(hist[r].workers) :
        /\ hist[r].workers[w].to > hist[r].workers[w].from + 1
        /\ Ended(r) /\ store[r].status = "done"
        /\ Len(store[r].steps) > Events(r)[hist[r].workers[w].from].n + 1

\* the fields of a run that a caller can read
RunFields(st) == <<st.vars, st.save, st.last, st.steps, st.status, st.error, st.cancelled>>

\* C39: runs are isolated from each other: a step of the thread of one run, a
\* cancel of one run and a finish of one run leave vars, save, last, steps,
\* status, error and cancelled of every other run as they are, for every
\* interleaving of two runs created from the same plan and initial state.
C39_RunsIsolated ==
    /\ [][\A r \in PairIds : PairStep(r) =>
                \A q \in DOMAIN store \ {r} : RunFields(store'[q]) = RunFields(store[q])]_vars
    /\ [](\A r \in PairIds \cup UnknownIds : \A q \in DOMAIN store \ {r} :
            /\ StoreCancel(store, r).runs[q] = store[q]
            /\ \A status \in FinishStatuses, error \in FinishErrors :
                    StoreFinish(store, r, status, error).runs[q] = store[q])

\* both runs have executed the same plan; one had a tool call time out and was
\* cancelled, the other has ended done with all its log entries
C39_Witness ==
    /\ DOMAIN store = PairIds
    /\ store["r1"].plan = store["r2"].plan
    /\ Ended("r1") /\ Ended("r2")
    /\ store["r1"].status = "cancelled" /\ store["r1"].cancelled
    /\ store["r2"].status = "done" /\ ~store["r2"].cancelled
    /\ Len(store["r1"].steps) > 0
    /\ Len(store["r2"].steps) > Len(store["r1"].steps)
    /\ Len(hist["r1"].workers) > 0 /\ Len(hist["r2"].workers) = 0

====
